---------------------------- MODULE Spec2Model ----------------------------
(***************************************************************************)
(* A model of the India power-sector dashboard: the calendar-key           *)
(* arithmetic, the CSV ingestion, the monthly / weekly / fiscal-year /     *)
(* rolling aggregations of ElectricityDashboard.tsx and the aligned chart  *)
(* of RTMVsStocksDailyCard.tsx.                                            *)
(*                                                                         *)
(* Representation.                                                         *)
(*  - A calendar key "YYYY-MM-DD" is the integer YYYYMMDD: for four-digit  *)
(*    years the code's string comparison is the integer comparison, and    *)
(*    slice(0,4) / slice(5,7) / slice(8,10) are the digit groups.  The     *)
(*    empty string (an unset date input) is 0.                             *)
(*  - A month key "YYYY-MM" is the integer YYYYMM.                         *)
(*  - A JavaScript number is an exact rational <<n, d>>, d > 0, in lowest  *)
(*    terms; null / undefined is Null.                                     *)
(*  - A Map<string, number> is a function from its keys to integers.       *)
(*  - A text is a sequence of one-character strings.                       *)
(***************************************************************************)
EXTENDS Integers, Sequences, FiniteSets, TLC

(***************************************************************************)
(* Bounds of the model.                                                    *)
(***************************************************************************)
MaxPoints == 3
MaxValue == 2

(***************************************************************************)
(* Numbers                                                                 *)
(***************************************************************************)
Null == <<>>

Abs(x) == IF x < 0 THEN -x ELSE x

RECURSIVE GCD(_, _)
GCD(a, b) == IF b = 0 THEN a ELSE GCD(b, a % b)

Sign(x) == IF x > 0 THEN 1 ELSE IF x < 0 THEN -1 ELSE 0

\* The number n/d: in lowest terms with a positive denominator when d # 0;
\* a division by zero gives <<1, 0>> (Infinity), <<-1, 0>> (-Infinity) or
\* <<0, 0>> (NaN), as the JavaScript division does.
Rat(n, d) ==
  IF d = 0 THEN <<Sign(n), 0>>
  ELSE LET g == GCD(Abs(n), Abs(d))
           s == IF d < 0 THEN -1 ELSE 1
       IN <<(s * n) \div g, (s * d) \div g>>

R(i) == <<i, 1>>
RIsZero(a) == a[1] = 0 /\ a[2] # 0
RSub(a, b) == Rat(a[1] * b[2] - b[1] * a[2], a[2] * b[2])
RDiv(a, b) == Rat(a[1] * b[2], a[2] * b[1])
RMul(a, b) == Rat(a[1] * b[1], a[2] * b[2])

\* Number.isFinite(x): false for null / undefined, NaN and the infinities
NumberIsFinite(x) == x # Null /\ x[2] # 0

RECURSIVE Pow10(_)
Pow10(k) == IF k = 0 THEN 1 ELSE 10 * Pow10(k - 1)

Min2(a, b) == IF a <= b THEN a ELSE b
Max2(a, b) == IF a >= b THEN a ELSE b

\* ElectricityDashboard.tsx clamp
clamp(n, lo, hi) == Min2(hi, Max2(lo, n))

(***************************************************************************)
(* Calendar: what Date.UTC, getUTC*, setUTCDate and toISOString compute.   *)
(***************************************************************************)
IsLeap(y) == (y % 4 = 0 /\ y % 100 # 0) \/ y % 400 = 0

DaysInMonth(y, m) ==
  IF m = 2 THEN (IF IsLeap(y) THEN 29 ELSE 28)
  ELSE IF m \in {4, 6, 9, 11} THEN 30 ELSE 31

\* Day number (days since 1970-01-01) of the proleptic Gregorian y-m-d;
\* linear in d, so a day past the end of the month rolls into the next one
\* as the Date constructor does.
DaysFromCivil(y, m, d) ==
  LET yy  == IF m <= 2 THEN y - 1 ELSE y
      era == yy \div 400
      yoe == yy - era * 400
      mp  == (m + 9) % 12
      doy == (153 * mp + 2) \div 5 + d - 1
      doe == yoe * 365 + yoe \div 4 - yoe \div 100 + doy
  IN era * 146097 + doe - 719468

\* <<year, month, day>> of a day number, step by step: the era and the day
\* of the era, the year of the era, the day of the year, the month counted
\* from March.
CivilOfMonth(era, yoe, doy, mp) ==
  << yoe + era * 400 + (IF mp < 10 THEN 0 ELSE 1),
     IF mp < 10 THEN mp + 3 ELSE mp - 9,
     doy - (153 * mp + 2) \div 5 + 1 >>

CivilOfYearDay(era, yoe, doy) == CivilOfMonth(era, yoe, doy, (5 * doy + 2) \div 153)

CivilOfYear(era, doe, yoe) ==
  CivilOfYearDay(era, yoe, doe - (365 * yoe + yoe \div 4 - yoe \div 100))

CivilOfEraDay(era, doe) ==
  CivilOfYear(era, doe, (doe - doe \div 1460 + doe \div 36524 - doe \div 146096) \div 365)

CivilOfEra(zz, era) == CivilOfEraDay(era, zz - era * 146097)

CivilFromDays(z) == CivilOfEra(z + 719468, (z + 719468) \div 146097)

\* Date.UTC(year, monthIndex, day) as a day number: the month index may be
\* negative or past 11 and the day may be 0 or past the end of the month; a
\* year argument of 0 .. 99 stands for 1900 .. 1999.
DateUTC(y, mi, d) ==
  LET yr == IF y \in 0..99 THEN 1900 + y ELSE y
  IN DaysFromCivil(yr + mi \div 12, (mi % 12) + 1, 1) + d - 1

KeyYear(k) == k \div 10000
KeyMonth(k) == (k \div 100) % 100
KeyDay(k) == k % 100
MkKey(y, m, d) == y * 10000 + m * 100 + d

\* The key of a <<year, month, day>>
KeyOfCivil(c) == MkKey(c[1], c[2], c[3])

\* The two conversions below are tabulated once for the days the model's
\* data can touch (TabFirst .. TabLast) and computed outside that span.
TabFirst == DaysFromCivil(2013, 1, 1)
TabLast == DaysFromCivil(2025, 12, 31)

IsoTab == [z \in TabFirst..TabLast |-> KeyOfCivil(CivilFromDays(z))]

DayTab == [k \in {IsoTab[z] : z \in TabFirst..TabLast} |->
             DaysFromCivil(KeyYear(k), KeyMonth(k), KeyDay(k))]

\* new Date(iso + "T00:00:00Z") as a day number.
DayOfIso(k) ==
  IF k \in DOMAIN DayTab THEN DayTab[k]
  ELSE DaysFromCivil(KeyYear(k), KeyMonth(k), KeyDay(k))

\* date.toISOString().slice(0, 10)
IsoOfDay(z) ==
  IF z >= TabFirst /\ z <= TabLast THEN IsoTab[z]
  ELSE KeyOfCivil(CivilFromDays(z))

\* getUTCDay(): 0 = Sunday ... 6 = Saturday (1970-01-01 was a Thursday).
UTCDay(z) == (z + 4) % 7

isoMinusDays(iso, days) == IsoOfDay(DayOfIso(iso) - days)

isoPlusDays(iso, days) == IsoOfDay(DayOfIso(iso) + days)

\* A week that starts on Sunday
startOfWeekSunday(iso) ==
  LET z == DayOfIso(iso)
  IN IsoOfDay(z - UTCDay(z))

startOfWeekISO(iso) ==
  LET z == DayOfIso(iso)
      dow == UTCDay(z)
      diffToMon == IF dow = 0 THEN -6 ELSE 1 - dow
  IN IsoOfDay(z + diffToMon)

monthKey(iso) == iso \div 100

addMonths(ym, delta) ==
  LET c == CivilFromDays(DateUTC(ym \div 100, (ym % 100) - 1 + delta, 1))
  IN c[1] * 100 + c[2]

getYear(ym) == ym \div 100

getMonth(ym) == ym % 100


(***************************************************************************)
(* Small helpers for maps and sequences                                    *)
(***************************************************************************)
EmptyMap == <<>>

\* map.set(k, v) on a copy
Put(f, k, v) == [x \in (DOMAIN f) \cup {k} |-> IF x = k THEN v ELSE f[x]]

\* map.delete(k) on a copy
Del(f, k) == [x \in (DOMAIN f) \ {k} |-> f[x]]

\* (map.get(k) || 0)
Get0(f, k) == IF k \in DOMAIN f THEN f[k] ELSE 0

\* map.get(k) of a map of records: <<rec>> when present, Null (undefined) when not
GetOpt(f, k) == IF k \in DOMAIN f THEN <<f[k]>> ELSE Null

SetMin(S) == CHOOSE x \in S : \A y \in S : x <= y
SetMax(S) == CHOOSE x \in S : \A y \in S : x >= y

\* Array.from(keys).sort(sortISO): the keys in ascending order
RECURSIVE SortedSeq(_)
SortedSeq(S) ==
  IF S = {} THEN <<>>
  ELSE LET m == SetMin(S) IN <<m>> \o SortedSeq(S \ {m})

RECURSIVE SumOver(_, _)
SumOver(f, S) ==
  IF S = {} THEN 0
  ELSE LET x == CHOOSE y \in S : TRUE IN f[x] + SumOver(f, S \ {x})

(***************************************************************************)
(* Growth                                                                  *)
(***************************************************************************)
\* ToNumber of a number or null (null - x is 0 - x in JavaScript)
ToNum(x) == IF x = Null THEN R(0) ELSE x

\* ElectricityDashboard.tsx safeDiv
safeDiv(n, d) == IF d = Null \/ RIsZero(d) THEN Null ELSE RDiv(n, d)

growthPctZeroBaseline(curr, prev) ==
  IF prev = Null THEN Null
  ELSE IF RIsZero(prev) THEN R(0)
  ELSE RMul(RDiv(RSub(curr, prev), prev), R(100))

\* ElectricityDashboard.tsx growthPct
growthPct(curr, prev) ==
  LET r == safeDiv(RSub(curr, ToNum(prev)), prev)
  IN IF r = Null THEN Null ELSE RMul(r, R(100))

\* RTMVsStocksDailyCard.tsx growthPct (and the copies of the card)
growthPctRtm(curr, prev) ==
  IF ~NumberIsFinite(curr) \/ ~NumberIsFinite(prev) \/ RIsZero(prev) THEN Null
  ELSE RMul(RDiv(RSub(curr, prev), prev), R(100))

\* The capacity card's growthPct
growthPctCapacity(curr, prev) ==
  IF ~NumberIsFinite(prev) \/ RIsZero(prev) THEN Null
  ELSE RMul(RDiv(RSub(ToNum(curr), prev), prev), R(100))

(***************************************************************************)
(* State of one ElectricityDashboard instance                              *)
(***************************************************************************)
VARIABLES
  dataMap,         \* useState dataMap: calendar key -> value
  fromIso,         \* the From date input (0: empty)
  toIso,           \* the To date input (0: empty)
  rangeDays,       \* the Range select
  aggFreq,         \* the "View as" select
  calcMode,        \* the calcMode prop: "sum" or "avg"
  \* RTMVsStocksDailyCard (its fromIso / toIso are cardFromIso / cardToIso here)
  loading,         \* TRUE while the load effect is in flight
  rtmMap,          \* calendar key -> RTM value
  stockSheets,     \* [prices, ptb], each [dates, cols, values, latestDate]
  mode,            \* "price" or "ptb"
  windowDays,      \* 7, 14, 30 or 45
  lagDays,
  selectedStocks,  \* sequence of column names
  preset,
  cardFromIso,
  cardToIso,
  \* one application of a pure function: [fn, args, done, out]
  call,
  \* ElectricityDashboard: browser storage and the default-CSV effect
  storage,         \* the object stored under tusk_india_<type>_v1: key -> value
  mounted,         \* TRUE while the dashboard is mounted
  loads,           \* the instances of the default-CSV effect, oldest first
  errors,          \* useState errors: a sequence of messages
  fetchStatus,     \* useState fetchStatus (Null: none)
  engine,          \* TRUE when the engine's Date is lenient (see Lenient)
  \* RatedCapacity
  ratedMounted,    \* TRUE while the Rated Capacity tab is mounted
  installed,       \* useState installed: source -> number
  installedStore,  \* the object stored under ratedCapacity_installed
  installedLoads,  \* the fetches of the capacity file, one for each mount that started one
  capacityCsvMissing,
  history,         \* useState history: the month rows, sorted
  historyLoads,    \* the fetches of loadHistory, one for each mount
  startMonth,      \* the Start month (0: "")
  endMonth,        \* the End month (0: "")
  \* LatestNews
  newsMounted,
  items,           \* useState items
  newsLoading,     \* useState loading
  err,             \* useState err (Null: none)
  newsCache,       \* the entry stored under latestNews_cache_v1 (Null: none)
  now,             \* Date.now(), in milliseconds
  newsCalls        \* the calls of loadNews that wait for a response

dashVars == <<dataMap, fromIso, toIso, rangeDays, aggFreq, calcMode>>

cardVars == <<loading, rtmMap, stockSheets, mode, windowDays, lagDays,
              selectedStocks, preset, cardFromIso, cardToIso>>

storeVars == <<storage, mounted, loads, errors, fetchStatus, engine>>

ratedVars == <<ratedMounted, installed, installedStore, installedLoads, capacityCsvMissing,
               history, historyLoads, startMonth, endMonth>>

newsVars == <<newsMounted, items, newsLoading, err, newsCache, now, newsCalls>>

\* The state outside the Rated Capacity tab and the Latest News tab
pageVars == <<ratedVars, newsVars>>

\* useMemo sortedDaily
sortedDailyOf(dm) ==
  LET ks == SortedSeq(DOMAIN dm)
  IN [i \in 1..Len(ks) |-> [date |-> ks[i], value |-> dm[ks[i]]]]

sortedDaily == sortedDailyOf(dataMap)

(***************************************************************************)
(* Monthly aggregation                                                     *)
(***************************************************************************)
RECURSIVE buildMonthAggFold(_, _, _)
buildMonthAggFold(sd, i, map) ==
  IF i > Len(sd) THEN map
  ELSE LET d == sd[i]
           m == monthKey(d.date)
           day == KeyDay(d.date)
           rec == IF m \in DOMAIN map THEN map[m]
                  ELSE [sum |-> 0, count |-> 0, maxDay |-> 0,
                        byDaySum |-> EmptyMap, byDayCount |-> EmptyMap]
           upd == [sum |-> rec.sum + d.value,
                   count |-> rec.count + 1,
                   maxDay |-> Max2(rec.maxDay, day),
                   byDaySum |-> Put(rec.byDaySum, day, Get0(rec.byDaySum, day) + d.value),
                   byDayCount |-> Put(rec.byDayCount, day, Get0(rec.byDayCount, day) + 1)]
       IN buildMonthAggFold(sd, i + 1, Put(map, m, upd))

buildMonthAggMap(sd) == buildMonthAggFold(sd, 1, EmptyMap)

\* The loop over day = 1 .. dayLimit adds byDaySum.get(day) where it is present.
sumMonthUpToDay(monthRec, dayLimit) ==
  IF monthRec = Null THEN Null
  ELSE LET by == monthRec[1].byDaySum
           days == {day \in 1..dayLimit : day \in DOMAIN by}
       IN IF days # {} THEN R(SumOver(by, days)) ELSE Null

avgMonthFull(monthRec) ==
  IF monthRec = Null \/ monthRec[1].count = 0 THEN Null
  ELSE Rat(monthRec[1].sum, monthRec[1].count)

prevYearMonthOf(m) == (getYear(m) - 1) * 100 + getMonth(m)

toMonthlySumComparable(sd) ==
  LET monthMap == buildMonthAggMap(sd)
      months == SortedSeq(DOMAIN monthMap)
  IN [i \in 1..Len(months) |->
        LET m == months[i]
            value == R(monthMap[m].sum)
            max_day == monthMap[m].maxDay
            prevComparableMoM == sumMonthUpToDay(GetOpt(monthMap, addMonths(m, -1)), max_day)
            prevComparableYoY == sumMonthUpToDay(GetOpt(monthMap, prevYearMonthOf(m)), max_day)
        IN [month |-> m, value |-> value, max_day |-> max_day,
            yoy_pct |-> IF prevComparableYoY # Null THEN growthPct(value, prevComparableYoY) ELSE Null,
            mom_pct |-> IF prevComparableMoM # Null THEN growthPct(value, prevComparableMoM) ELSE Null]]

toMonthlyAvgFull(sd) ==
  LET monthMap == buildMonthAggMap(sd)
      months == SortedSeq(DOMAIN monthMap)
  IN [i \in 1..Len(months) |->
        LET m == months[i]
            a == avgMonthFull(GetOpt(monthMap, m))
            currAvg == IF a = Null THEN R(0) ELSE a
            prevAvg == avgMonthFull(GetOpt(monthMap, addMonths(m, -1)))
            prevYearAvg == avgMonthFull(GetOpt(monthMap, prevYearMonthOf(m)))
        IN [month |-> m, value |-> currAvg,
            yoy_pct |-> IF prevYearAvg # Null THEN growthPct(currAvg, prevYearAvg) ELSE Null,
            mom_pct |-> IF prevAvg # Null THEN growthPct(currAvg, prevAvg) ELSE Null]]

\* useMemo monthlyAgg
monthlyAgg ==
  IF calcMode = "sum" THEN toMonthlySumComparable(sortedDaily)
  ELSE toMonthlyAvgFull(sortedDaily)


(***************************************************************************)
(* The chart series (useMemo dailyForChart)                                *)
(***************************************************************************)
\* "dd-mm-yyyy" as the integer DDMMYYYY
formatDDMMYYYY(iso) == KeyDay(iso) * 1000000 + KeyMonth(iso) * 10000 + KeyYear(iso)

\* The while loop from startIso to endIso, one calendar day at a time, adds
\* the values present in dailyLookup and counts them.
\* The keys a loop "cur = startIso; while (cur <= endIso) { map.get(cur);
\* cur = isoPlusDays(cur, 1) }" finds in the map: the loop visits every
\* calendar day from startIso to endIso, so a key is found when it is a
\* calendar day (not, say, 2024-02-31) of that span.
DaysVisited(dm, startIso, endIso) ==
  {k \in DOMAIN dm : startIso <= k /\ k <= endIso /\ IsoOfDay(DayOfIso(k)) = k}

sumCountIn(dm, startIso, endIso) ==
  IF startIso > endIso THEN [sum |-> Null, count |-> 0]
  ELSE LET keys == DaysVisited(dm, startIso, endIso)
           count == Cardinality(keys)
       IN [sum |-> IF count # 0 THEN R(SumOver(dm, keys)) ELSE Null, count |-> count]

sumCountRangeInclusive(startIso, endIso) == sumCountIn(dataMap, startIso, endIso)

lastIso == sortedDaily[Len(sortedDaily)].date

effectiveTo == IF toIso # 0 THEN toIso ELSE lastIso

effectiveFrom ==
  IF fromIso # 0 THEN fromIso ELSE isoMinusDays(lastIso, clamp(rangeDays, 7, 3650))

\* The From end taken as it is
chartFromAsGiven == effectiveFrom

chartF == IF effectiveFrom <= effectiveTo THEN effectiveFrom ELSE effectiveTo

chartT == IF effectiveFrom <= effectiveTo THEN effectiveTo ELSE effectiveFrom

avgOrElse(sc, other) ==
  IF sc.sum # Null /\ sc.count # 0 THEN RDiv(sc.sum, R(sc.count)) ELSE other

\* One point of the daily branch
\* `${Number(iso.slice(0, 4)) - 1}${iso.slice(4)}`
sameDayPrevYear(iso) == iso - 10000

dailyPoint(d) ==
  LET pyDate == sameDayPrevYear(d.date)
      dt == IsoOfDay(DateUTC(KeyYear(d.date), KeyMonth(d.date) - 2, KeyDay(d.date)))
      sameDayPrevMonth == IF KeyDay(dt) = KeyDay(d.date) THEN dt ELSE 0
      py == IF pyDate \in DOMAIN dataMap THEN R(dataMap[pyDate]) ELSE Null
      pm == IF sameDayPrevMonth # 0 /\ sameDayPrevMonth \in DOMAIN dataMap
            THEN R(dataMap[sameDayPrevMonth]) ELSE Null
  IN [label |-> formatDDMMYYYY(d.date),
      units |-> R(d.value),
      prev_year_units |-> py,
      yoy_pct |-> IF py # Null THEN growthPct(R(d.value), py) ELSE Null,
      mom_pct |-> IF pm # Null THEN growthPct(R(d.value), pm) ELSE Null]

\* The rolling branches, with back = window length - 1 (44, 29, 13 or 6);
\* isSum only for rolling30_sum, wow only for weekly_roll7_avg.
\* currVal over the series dm: the value of the window ending at cur.
rollingCurrOf(dm, cur, back, isSum) ==
  LET currSC == sumCountIn(dm, isoMinusDays(cur, back), cur)
  IN IF isSum THEN (IF currSC.sum # Null THEN currSC.sum ELSE R(0))
     ELSE avgOrElse(currSC, R(0))

rollingCurr(cur, back, isSum) == rollingCurrOf(dataMap, cur, back, isSum)

\* prevVal: the value of the same window 365 days earlier
rollingPrevYear(cur, back, isSum) ==
  LET curPrevYear == isoMinusDays(cur, 365)
      prevSC == sumCountRangeInclusive(isoMinusDays(curPrevYear, back), curPrevYear)
  IN IF isSum THEN prevSC.sum ELSE avgOrElse(prevSC, Null)

\* prevWVal: the value of the window ending 7 days earlier
rollingPrevWeek(cur, back) ==
  LET curPrevWeekEnd == isoMinusDays(cur, 7)
      prevWSC == sumCountRangeInclusive(isoMinusDays(curPrevWeekEnd, back), curPrevWeekEnd)
  IN avgOrElse(prevWSC, Null)

rollingPoint(cur, back, isSum, wow) ==
  LET currVal == rollingCurr(cur, back, isSum)
      prevVal == rollingPrevYear(cur, back, isSum)
      prevWVal == IF wow THEN rollingPrevWeek(cur, back) ELSE Null
  IN [label |-> formatDDMMYYYY(cur),
      units |-> currVal,
      prev_year_units |-> prevVal,
      yoy_pct |-> IF prevVal # Null THEN growthPct(currVal, prevVal) ELSE Null,
      mom_pct |-> IF prevWVal # Null THEN growthPct(currVal, prevWVal) ELSE Null]

monthAggMap == buildMonthAggMap(sortedDaily)

monthValue(rec) == IF calcMode = "sum" THEN R(rec.sum) ELSE Rat(rec.sum, rec.count)

\* One point of the monthly branch
monthlyPoint(m) ==
  LET rec == monthAggMap[m]
      curr == monthValue(rec)
      prevMonth == addMonths(m, -1)
      prevVal == IF prevMonth \in DOMAIN monthAggMap THEN monthValue(monthAggMap[prevMonth]) ELSE Null
      prevYearMonth == prevYearMonthOf(m)
      pyVal == IF prevYearMonth \in DOMAIN monthAggMap THEN monthValue(monthAggMap[prevYearMonth]) ELSE Null
  IN [label |-> m,
      units |-> curr,
      prev_year_units |-> pyVal,
      yoy_pct |-> IF pyVal # Null THEN growthPct(curr, pyVal) ELSE Null,
      mom_pct |-> IF prevVal # Null THEN growthPct(curr, prevVal) ELSE Null]

\* The months of the monthly branch: the cursor runs from monthKey(f) to
\* monthKey(t) and keeps the months that have data (at most 601 of them).
chartMonths ==
  LET all == SortedSeq({m \in DOMAIN monthAggMap : m >= monthKey(chartF) /\ m <= monthKey(chartT)})
  IN IF Len(all) > 601 THEN SubSeq(all, 1, 601) ELSE all

\* The anchors of a rolling branch: cur runs from f to t one day at a time.
chartAnchors ==
  IF chartF > chartT THEN <<>>
  ELSE [i \in 1..(DayOfIso(chartT) - DayOfIso(chartF) + 1) |-> isoPlusDays(chartF, i - 1)]

rollingBack ==
  CASE aggFreq = "rolling45_avg" -> 44
    [] aggFreq = "rolling30_avg" -> 29
    [] aggFreq = "rolling30_sum" -> 29
    [] aggFreq = "rolling14_avg" -> 13
    [] aggFreq = "weekly_roll7_avg" -> 6

RollingViews == {"rolling45_avg", "rolling30_avg", "rolling30_sum", "rolling14_avg", "weekly_roll7_avg"}

\* The point a rolling branch pushes for anchor cur
chartPointAt(cur) ==
  rollingPoint(cur, rollingBack, aggFreq = "rolling30_sum", aggFreq = "weekly_roll7_avg")

dailyForChart ==
  IF Len(sortedDaily) = 0 THEN <<>>
  ELSE IF aggFreq = "daily" THEN
    LET filtered == SelectSeq(sortedDaily, LAMBDA d : d.date >= chartF /\ d.date <= chartT)
    IN [i \in 1..Len(filtered) |-> dailyPoint(filtered[i])]
  ELSE IF aggFreq \in RollingViews THEN
    [i \in 1..Len(chartAnchors) |-> chartPointAt(chartAnchors[i])]
  ELSE [i \in 1..Len(chartMonths) |-> monthlyPoint(chartMonths[i])]


(***************************************************************************)
(* Weekly table (useMemo weeklyRows)                                       *)
(***************************************************************************)
WeeksShown == 104

RECURSIVE weekFold(_, _, _)
weekFold(sd, i, acc) ==
  IF i > Len(sd) THEN acc
  ELSE LET wk == startOfWeekISO(sd[i].date)
       IN weekFold(sd, i + 1,
                   [weekSum |-> Put(acc.weekSum, wk, Get0(acc.weekSum, wk) + sd[i].value),
                    weekCount |-> Put(acc.weekCount, wk, Get0(acc.weekCount, wk) + 1)])

weekMaps == weekFold(sortedDaily, 1, [weekSum |-> EmptyMap, weekCount |-> EmptyMap])

\* prevSum != null && prevCnt ? (sum or sum / cnt) : null
periodValueOrNull(sums, counts, k) ==
  IF k \in DOMAIN sums /\ Get0(counts, k) # 0
  THEN (IF calcMode = "sum" THEN R(sums[k]) ELSE Rat(sums[k], counts[k]))
  ELSE Null

weeklyRow(wk) ==
  LET sum == weekMaps.weekSum[wk]
      cnt == weekMaps.weekCount[wk]
      curr == IF calcMode = "sum" THEN R(sum) ELSE Rat(sum, cnt)
      prevVal == periodValueOrNull(weekMaps.weekSum, weekMaps.weekCount, isoMinusDays(wk, 7))
      pyVal == periodValueOrNull(weekMaps.weekSum, weekMaps.weekCount, isoMinusDays(wk, 364))
  IN [weekStart |-> wk,
      value |-> curr,
      wow_pct |-> IF prevVal # Null THEN growthPct(curr, prevVal) ELSE Null,
      yoy_pct |-> IF pyVal # Null THEN growthPct(curr, pyVal) ELSE Null]

weeklyRows ==
  IF Len(sortedDaily) = 0 THEN <<>>
  ELSE LET weeks == SortedSeq(DOMAIN weekMaps.weekSum)
           lastWeeks == SubSeq(weeks, Max2(0, Len(weeks) - WeeksShown) + 1, Len(weeks))
       IN [i \in 1..Len(lastWeeks) |-> weeklyRow(lastWeeks[i])]

(***************************************************************************)
(* Fiscal-year table (useMemo yearlyFYRows).  The label "FYyy" is the      *)
(* integer yy = Number(label.slice(2)); "FY-1" (the label before FY00) is  *)
(* -1.                                                                     *)
(***************************************************************************)
\* `FY${String(fyEndYear).slice(2)}` for a four-digit year
fyLabelFromIso(iso) ==
  LET y == KeyYear(iso)
      m == KeyMonth(iso)
      fyEndYear == IF m >= 4 THEN y + 1 ELSE y
  IN fyEndYear % 100

RECURSIVE fyFold(_, _, _)
fyFold(sd, i, acc) ==
  IF i > Len(sd) THEN acc
  ELSE LET fy == fyLabelFromIso(sd[i].date)
           curMax == Get0(acc.fyMaxDate, fy)
       IN fyFold(sd, i + 1,
                 [fySum |-> Put(acc.fySum, fy, Get0(acc.fySum, fy) + sd[i].value),
                  fyCount |-> Put(acc.fyCount, fy, Get0(acc.fyCount, fy) + 1),
                  fyMaxDate |-> IF sd[i].date > curMax THEN Put(acc.fyMaxDate, fy, sd[i].date)
                                ELSE acc.fyMaxDate])

fyMapsOf(sd) == fyFold(sd, 1, [fySum |-> EmptyMap, fyCount |-> EmptyMap, fyMaxDate |-> EmptyMap])

fyMaps == fyMapsOf(sortedDaily)

\* Array.from(fySum.keys()).sort((a, b) => Number(a.slice(2)) - Number(b.slice(2)))
fys(maps) == SortedSeq(DOMAIN maps.fySum)

\* The year shift without the clamping: the Date's own overflow into the
\* next month is kept.
isoAddYearsOverflow(iso, deltaYears) ==
  IsoOfDay(DateUTC(KeyYear(iso) + deltaYears, KeyMonth(iso) - 1, KeyDay(iso)))

\* The year-shifted key, clamped to the last day of the month when the
\* same day does not exist in the target year.
isoAddYears(iso, deltaYears) ==
  LET y == KeyYear(iso)
      m == KeyMonth(iso)
      d == KeyDay(iso)
      tryDt == CivilFromDays(DateUTC(y + deltaYears, m - 1, d))
  IN IF tryDt[1] = y + deltaYears /\ tryDt[2] = m /\ tryDt[3] = d
     THEN MkKey(tryDt[1], tryDt[2], tryDt[3])
     ELSE IsoOfDay(DateUTC(y + deltaYears, m, 0))

fyStartIsoFromFYLabel(fy) == MkKey(2000 + fy - 1, 4, 1)

fyEndIso(fy) == MkKey(2000 + fy, 3, 31)

\* The label before FYnn taken around the century: FY99 before FY00
prevFYOfWrapped(fy) == (fy + 99) % 100

\* `FY${String(Number(fy.slice(2)) - 1).padStart(2, "0")}`
prevFYOf(fy) == fy - 1

fyPrevEndSameSpan(fy, maxDate) ==
  isoPlusDays(fyStartIsoFromFYLabel(prevFYOf(fy)),
              DayOfIso(maxDate) - DayOfIso(fyStartIsoFromFYLabel(fy)))

\* The last day of the prior-year range an incomplete fiscal year is compared with
fyPrevEnd(fy, maxDate) == isoAddYears(maxDate, -1)

rangeValue(sc) == IF calcMode = "sum" THEN sc.sum ELSE avgOrElse(sc, Null)

yearlyFYRow(fy) ==
  LET sum == fyMaps.fySum[fy]
      cnt == fyMaps.fyCount[fy]
      curr == IF calcMode = "sum" THEN R(sum) ELSE Rat(sum, cnt)
      prevFY == prevFYOf(fy)
      prev == periodValueOrNull(fyMaps.fySum, fyMaps.fyCount, prevFY)
      maxDate == fyMaps.fyMaxDate[fy]
      isComplete == maxDate >= fyEndIso(fy)
      currVal == rangeValue(sumCountRangeInclusive(fyStartIsoFromFYLabel(fy), maxDate))
      prevVal == rangeValue(sumCountRangeInclusive(fyStartIsoFromFYLabel(prevFY), fyPrevEnd(fy, maxDate)))
      yoy == IF prevFY \in DOMAIN fyMaps.fySum /\ Get0(fyMaps.fyCount, prevFY) # 0
             THEN (IF isComplete
                   THEN (IF prev # Null THEN growthPct(curr, prev) ELSE Null)
                   ELSE (IF currVal # Null /\ prevVal # Null THEN growthPct(currVal, prevVal) ELSE Null))
             ELSE Null
  IN [fy |-> fy, value |-> curr, yoy_pct |-> yoy]

yearlyFYRows ==
  IF Len(sortedDaily) = 0 THEN <<>>
  ELSE LET labels == fys(fyMaps)
       IN [i \in 1..Len(labels) |-> yearlyFYRow(labels[i])]


(***************************************************************************)
(* The dashboard's handlers.  Every handler is followed by the effect that *)
(* fills an empty From / To input from the latest date of the series.      *)
(***************************************************************************)
Values == 0..MaxValue

DigitChars == <<"0", "1", "2", "3", "4", "5", "6", "7", "8", "9">>

\* String(n).padStart(w, "0") for 0 <= n < 10^w
PadStart(n, w) == [i \in 1..w |-> DigitChars[((n \div Pow10(w - i)) % 10) + 1]]

\* The text of a calendar key with the month and the day not padded
KeyTextUnpadded(k) ==
  PadStart(KeyYear(k), 4) \o <<"-">> \o PadStart(KeyMonth(k), IF KeyMonth(k) < 10 THEN 1 ELSE 2)
    \o <<"-">> \o PadStart(KeyDay(k), IF KeyDay(k) < 10 THEN 1 ELSE 2)

\* The text "YYYY-MM-DD" of a calendar key
KeyText(k) ==
  PadStart(KeyYear(k), 4) \o <<"-">> \o PadStart(KeyMonth(k), 2) \o <<"-">> \o PadStart(KeyDay(k), 2)

\* useEffect([dataMap, STORAGE_KEY]): the object that JSON.stringify(
\* Object.fromEntries(dataMap.entries())) writes, text of the key -> value
storedObject(dm) ==
  LET text == [k \in DOMAIN dm |-> KeyText(k)]
  IN [t \in {text[k] : k \in DOMAIN dm} |-> dm[CHOOSE k \in DOMAIN dm : text[k] = t]]

\* One instance of the default-CSV effect: its cancelled flag and whether its
\* fetch has settled
NewLoad == [cancelled |-> FALSE, settled |-> FALSE]

ViewAsOptions ==
  {"rolling45_avg", "rolling30_avg", "rolling14_avg", "daily", "weekly_roll7_avg", "monthly"}
  \cup (IF calcMode = "sum" THEN {"rolling30_sum"} ELSE {})

\* useEffect([sortedDaily, toIso, fromIso, rangeDays])
EffectFrom(dm, f, rd) ==
  IF DOMAIN dm # {} /\ f = 0
  THEN isoMinusDays(SetMax(DOMAIN dm), clamp(rd, 7, 3650)) ELSE f

EffectTo(dm, t) ==
  IF DOMAIN dm # {} /\ t = 0 THEN SetMax(DOMAIN dm) ELSE t

DashInit ==
  /\ dataMap = EmptyMap
  /\ fromIso = 0
  /\ toIso = 0
  /\ rangeDays = 730
  /\ aggFreq = "rolling30_avg"
  /\ calcMode \in {"sum", "avg"}
  /\ storage = storedObject(EmptyMap)
  /\ mounted = TRUE
  /\ loads = <<NewLoad>>
  /\ errors = <<>>
  /\ fetchStatus = Null
  /\ engine = TRUE

\* setDataMap(dm) and setErrors(errs) in a mounted dashboard, with the effects
\* that follow: the From / To defaults and the write to browser storage
SetDataAnd(dm, errs) ==
  /\ mounted
  /\ dataMap' = dm
  /\ fromIso' = EffectFrom(dm, fromIso, rangeDays)
  /\ toIso' = EffectTo(dm, toIso)
  /\ storage' = storedObject(dm)
  /\ errors' = errs
  /\ UNCHANGED <<rangeDays, aggFreq, calcMode, cardVars, call, mounted, loads,
                 fetchStatus, engine, pageVars>>

SetData(dm) == SetDataAnd(dm, errors)

\* upsertOne with a date text that parses to iso and a value text that reads v
UpsertOne(D) ==
  \E iso \in D, v \in Values :
    /\ Cardinality((DOMAIN dataMap) \cup {iso}) <= MaxPoints
    /\ SetDataAnd(Put(dataMap, iso, v), <<>>)

\* removeDate: the Remove button of a table row
RemoveDate ==
  \E iso \in DOMAIN dataMap : SetData(Del(dataMap, iso))

\* clearAll, confirmed
ClearAll == SetData(EmptyMap)

\* onChange of the From date input (shown when the series has data)
SetFromIso(D) ==
  \E x \in D :
    /\ DOMAIN dataMap # {}
    /\ fromIso' = EffectFrom(dataMap, x, rangeDays)
    /\ UNCHANGED <<dataMap, toIso, rangeDays, aggFreq, calcMode, cardVars, call, storeVars, pageVars>>

\* onChange of the To date input
SetToIso(D) ==
  \E x \in D :
    /\ DOMAIN dataMap # {}
    /\ toIso' = EffectTo(dataMap, x)
    /\ UNCHANGED <<dataMap, fromIso, rangeDays, aggFreq, calcMode, cardVars, call, storeVars, pageVars>>

\* onChange of the Range select
SetRangeDays(O) ==
  \E v \in O :
    /\ DOMAIN dataMap # {}
    /\ rangeDays' = v
    /\ toIso' = SetMax(DOMAIN dataMap)
    /\ fromIso' = isoMinusDays(SetMax(DOMAIN dataMap), clamp(v, 7, 3650))
    /\ UNCHANGED <<dataMap, aggFreq, calcMode, cardVars, call, storeVars, pageVars>>

\* onChange of the "View as" select
SetAggFreq ==
  \E x \in ViewAsOptions :
    /\ DOMAIN dataMap # {}
    /\ aggFreq' = x
    /\ UNCHANGED <<dataMap, fromIso, toIso, rangeDays, calcMode, cardVars, call, storeVars, pageVars>>

vars == <<dashVars, cardVars, call, storeVars, pageVars>>

\* No function is being applied
CallIdle == call = Null

\* The dashboard as mounted, in sum mode, before any input
DashIdle == DashInit /\ calcMode = "sum"


(***************************************************************************)
(* RTMVsStocksDailyCard.tsx                                                *)
(***************************************************************************)
\* The day clamped to the last day of the target month; targetDate is the
\* <<year, month, day>> of the first day of that month
isoMinusMonthsIn(targetDate, day) ==
  LET lastDay == CivilFromDays(DateUTC(targetDate[1], targetDate[2], 0))[3]
      clampedDay == Min2(day, lastDay)
  IN IsoOfDay(DateUTC(targetDate[1], targetDate[2] - 1, clampedDay))

isoMinusMonths(anchorIso, months) ==
  isoMinusMonthsIn(
    CivilFromDays(DateUTC(KeyYear(anchorIso), KeyMonth(anchorIso) - 1 - months, 1)),
    KeyDay(anchorIso))

isoStartOfYear(iso) == IsoOfDay(DateUTC(KeyYear(iso), 0, 1))

\* The mean of all the dates <= anchor
rollingAvgStocksAll(series, anchor, n) ==
  LET dates == {d \in DOMAIN series : d <= anchor}
  IN IF dates = {} THEN Null ELSE Rat(SumOver(series, dates), Cardinality(dates))

\* STOCK rolling: the last n available dates <= anchor
rollingAvgStocks(series, anchor, n) ==
  LET dates == SortedSeq({d \in DOMAIN series : d <= anchor})
      last == SubSeq(dates, Max2(0, Len(dates) - n) + 1, Len(dates))
  IN IF Len(dates) = 0 \/ Len(last) = 0 THEN Null
     ELSE Rat(SumOver(series, {last[i] : i \in 1..Len(last)}), Len(last))

\* The window's sum over the window's length
rollingAvgRtmOverN(series, anchor, n) ==
  LET keys == DaysVisited(series, isoMinusDays(anchor, n - 1), anchor)
  IN IF keys = {} THEN Null ELSE Rat(SumOver(series, keys), n)

\* RTM rolling: the calendar days start .. anchor, one at a time
rollingAvgRtm(series, anchor, n) ==
  LET start == isoMinusDays(anchor, n - 1)
      keys == DaysVisited(series, start, anchor)
      count == Cardinality(keys)
  IN IF count = 0 THEN Null ELSE Rat(SumOver(series, keys), count)

EmptySheet == [dates |-> <<>>, cols |-> <<>>, values |-> EmptyMap, latestDate |-> 0]

buildEmptySheets == [prices |-> EmptySheet, ptb |-> EmptySheet]

activeSheet == IF mode = "price" THEN stockSheets.prices ELSE stockSheets.ptb

anchorDateOf(sheets, md) == IF md = "price" THEN sheets.prices.latestDate ELSE sheets.ptb.latestDate

anchorDate == anchorDateOf(stockSheets, mode)

\* The preset effect: the From date it fills in for the sheet sh
presetFrom(sh, p) ==
  CASE p = "1m" -> isoMinusMonths(sh.latestDate, 1)
    [] p = "3m" -> isoMinusMonths(sh.latestDate, 3)
    [] p = "6m" -> isoMinusMonths(sh.latestDate, 6)
    [] p = "12m" -> isoMinusMonths(sh.latestDate, 12)
    [] p = "24m" -> isoMinusMonths(sh.latestDate, 24)
    [] p = "36m" -> isoMinusMonths(sh.latestDate, 36)
    [] p = "ytd" -> isoStartOfYear(sh.latestDate)
    [] p = "all" -> IF Len(sh.dates) # 0 THEN sh.dates[1] ELSE isoMinusMonths(sh.latestDate, 36)

\* /^\d{4}-\d{2}-\d{2}$/.test(iso): a date input gives a year of more than
\* four digits as it is typed
isFourDigitYear(iso) == KeyYear(iso) <= 9999

\* useMemo range: 0 stands for a null bound
range ==
  IF anchorDate = 0 THEN [fromIso |-> 0, toIso |-> 0]
  ELSE LET safeTo == IF cardToIso # 0 /\ isFourDigitYear(cardToIso) /\ cardToIso <= anchorDate
                     THEN cardToIso ELSE anchorDate
           safeFrom == IF cardFromIso # 0 /\ isFourDigitYear(cardFromIso) /\ cardFromIso <= safeTo
                       THEN cardFromIso ELSE isoMinusMonths(anchorDate, 24)
       IN [fromIso |-> safeFrom, toIso |-> safeTo]

\* Math.max(0, Math.min(365, Math.floor(Number(lagDays) || 0)))
lagClamped == Max2(0, Min2(365, lagDays))

\* The RTM series queried at the displayed day
rtmDateUnlagged(cur) == cur

\* The query date of the RTM series for the row of day cur
rtmDateOf(cur) == IF lagClamped # 0 THEN isoMinusDays(cur, lagClamped) ELSE cur

\* The stocks of a row: the selected columns that the active sheet has
rowStocks == {selectedStocks[i] : i \in 1..Len(selectedStocks)} \cap DOMAIN activeSheet.values

\* One row of chartData (showYoY off)
chartRow(cur) ==
  [label |-> formatDDMMYYYY(cur),
   iso |-> cur,
   rtm |-> rollingAvgRtm(rtmMap, rtmDateOf(cur), windowDays),
   rtmIso |-> rtmDateOf(cur),
   stocks |-> [s \in rowStocks |-> rollingAvgStocks(activeSheet.values[s], cur, windowDays)]]

\* useMemo chartData: cur runs from range.fromIso to range.toIso
chartData ==
  IF range.fromIso = 0 \/ range.toIso = 0 THEN <<>>
  ELSE IF DOMAIN rtmMap = {} THEN <<>>
  ELSE IF range.fromIso > range.toIso THEN <<>>
  ELSE [i \in 1..(DayOfIso(range.toIso) - DayOfIso(range.fromIso) + 1) |->
          chartRow(isoPlusDays(range.fromIso, i - 1))]

CardInit ==
  /\ loading = TRUE
  /\ rtmMap = EmptyMap
  /\ stockSheets = buildEmptySheets
  /\ mode = "price"
  /\ windowDays = 45
  /\ lagDays = 0
  /\ selectedStocks = <<>>
  /\ preset = "24m"
  /\ cardFromIso = 0
  /\ cardToIso = 0

\* The preset effect after a render with sheets, md and p: it runs when the
\* anchor date, the preset or the active sheet's dates changed.
PresetEffect(sheets, md, p) ==
  LET sh == IF md = "price" THEN sheets.prices ELSE sheets.ptb
  IN IF sh.latestDate = 0 THEN UNCHANGED <<cardFromIso, cardToIso>>
     ELSE /\ cardToIso' = sh.latestDate
          /\ cardFromIso' = presetFrom(sh, p)

\* The load effect completes with the parsed RTM series and the workbook
LoadDone(RtmSeries, Workbooks) ==
  \E rtm \in RtmSeries, stocks \in Workbooks :
    /\ loading
    /\ loading' = FALSE
    /\ rtmMap' = rtm
    /\ stockSheets' = stocks
    /\ LET cols == IF Len(stocks.prices.cols) # 0 THEN stocks.prices.cols ELSE stocks.ptb.cols
       IN selectedStocks' = SubSeq(cols, 1, Min2(1, Len(cols)))
    /\ PresetEffect(stocks, mode, preset)
    /\ UNCHANGED <<mode, windowDays, lagDays, preset, dashVars, call, storeVars, pageVars>>

\* The controls are rendered once loading is over and there is an anchor date
ControlsShown == ~loading /\ anchorDate # 0

SetWindowDays(W) ==
  \E n \in W :
    /\ ControlsShown
    /\ windowDays' = n
    /\ UNCHANGED <<loading, rtmMap, stockSheets, mode, lagDays, selectedStocks,
                   preset, cardFromIso, cardToIso, dashVars, call, storeVars, pageVars>>

SetMode ==
  \E md \in {"price", "ptb"} :
    /\ ControlsShown
    /\ mode' = md
    /\ IF md # mode THEN PresetEffect(stockSheets, md, preset)
       ELSE UNCHANGED <<cardFromIso, cardToIso>>
    /\ UNCHANGED <<loading, rtmMap, stockSheets, windowDays, lagDays, selectedStocks,
                   preset, dashVars, call, storeVars, pageVars>>

\* onChange of the Lag input with a text that reads as the integer n
SetLagDays(L) ==
  \E n \in L :
    /\ ControlsShown
    /\ lagDays' = Max2(0, Min2(365, n))
    /\ UNCHANGED <<loading, rtmMap, stockSheets, mode, windowDays, selectedStocks,
                   preset, cardFromIso, cardToIso, dashVars, call, storeVars, pageVars>>

SetPreset(P) ==
  \E p \in P :
    /\ ControlsShown
    /\ preset' = p
    /\ IF p # preset THEN PresetEffect(stockSheets, mode, p)
       ELSE UNCHANGED <<cardFromIso, cardToIso>>
    /\ UNCHANGED <<loading, rtmMap, stockSheets, mode, windowDays, lagDays,
                   selectedStocks, dashVars, call, storeVars, pageVars>>

SetCardFromIso(D) ==
  \E x \in D :
    /\ ControlsShown
    /\ cardFromIso' = x
    /\ UNCHANGED <<loading, rtmMap, stockSheets, mode, windowDays, lagDays,
                   selectedStocks, preset, cardToIso, dashVars, call, storeVars, pageVars>>

SetCardToIso(D) ==
  \E x \in D :
    /\ ControlsShown
    /\ cardToIso' = x
    /\ UNCHANGED <<loading, rtmMap, stockSheets, mode, windowDays, lagDays,
                   selectedStocks, preset, cardFromIso, dashVars, call, storeVars, pageVars>>

\* The "Pick top 1" and "Pick top 2" buttons
PickTop(K) ==
  \E k \in K :
    /\ ControlsShown
    /\ selectedStocks' = SubSeq(activeSheet.cols, 1, Min2(k, Len(activeSheet.cols)))
    /\ UNCHANGED <<loading, rtmMap, stockSheets, mode, windowDays, lagDays,
                   preset, cardFromIso, cardToIso, dashVars, call, storeVars, pageVars>>

(***************************************************************************)
(* The Rated Capacity tab and the Latest News tab before they are opened   *)
(***************************************************************************)
SOURCES == <<"Coal", "Oil & Gas", "Nuclear", "Hydro", "Solar", "Wind", "Small-Hydro", "Bio Power">>

SourceSet == {SOURCES[i] : i \in 1..Len(SOURCES)}

\* Object.fromEntries(SOURCES.map((s) => [s, 0]))
ZeroBySource == [s \in SourceSet |-> R(0)]

RatedIdle ==
  /\ ratedMounted = FALSE
  /\ installed = ZeroBySource
  /\ installedStore = Null
  /\ installedLoads = <<>>
  /\ capacityCsvMissing = FALSE
  /\ history = <<>>
  /\ historyLoads = <<>>
  /\ startMonth = 0
  /\ endMonth = 0

NewsIdle ==
  /\ newsMounted = FALSE
  /\ items = <<>>
  /\ newsLoading = FALSE
  /\ err = Null
  /\ newsCache = Null
  /\ now = 0
  /\ newsCalls = <<>>

PagesIdle == RatedIdle /\ NewsIdle

(***************************************************************************)
(* SpecTable: the series is edited; the monthly, weekly and fiscal-year    *)
(* tables are derived from it.                                             *)
(***************************************************************************)
TableDates == {20230306, 20240205, 20240228, 20240305, 20240310}

TableNext ==
  \/ UpsertOne(TableDates)
  \/ RemoveDate
  \/ ClearAll

TableInit == DashInit /\ CardInit /\ PagesIdle /\ CallIdle

SpecTable == TableInit /\ [][TableNext]_vars

(***************************************************************************)
(* SpecChart: the series is edited and the chart controls are used; the    *)
(* chart series is derived from both.                                      *)
(***************************************************************************)
ChartDates == {20240228, 20240305, 20240310}

ChartFromInputs == {20240308}

ChartToInputs == {20240301}

ChartRangeOptions == {60}

ChartNext ==
  \/ UpsertOne(ChartDates)
  \/ RemoveDate
  \/ ClearAll
  \/ SetFromIso(ChartFromInputs)
  \/ SetToIso(ChartToInputs)
  \/ SetRangeDays(ChartRangeOptions)
  \/ SetAggFreq

ChartInit == DashInit /\ CardInit /\ PagesIdle /\ CallIdle

SpecChart == ChartInit /\ [][ChartNext]_vars

(***************************************************************************)
(* SpecDays: one date of the series is edited, and From and To are set to  *)
(* a day before it and a day after it, in either order.                    *)
(***************************************************************************)
DayDates == {20240305}

DayEndInputs == {20240301, 20240308}

DayRangeOptions == {7}

DaysNext ==
  \/ UpsertOne(DayDates)
  \/ RemoveDate
  \/ ClearAll
  \/ SetFromIso(DayEndInputs)
  \/ SetToIso(DayEndInputs)
  \/ SetRangeDays(DayRangeOptions)
  \/ SetAggFreq

DaysInit == DashIdle /\ CardInit /\ PagesIdle /\ CallIdle

SpecDays == DaysInit /\ [][DaysNext]_vars

(***************************************************************************)
(* SpecRtm: the RTM vs Stocks card loads its two files and its controls    *)
(* are used; chartData is derived from the card's state.                   *)
(***************************************************************************)
RtmDates == {20240228, 20240305}

\* The series parseRtmCsv returns for a file without a usable row and for
\* the files with one row on each of RtmDates
RtmSeries == {EmptyMap} \cup [RtmDates -> 1..MaxValue]

\* A sheet as parseSheet returns it for the columns cols and their cells
MkSheet(cols, values) ==
  LET ds == SortedSeq(UNION {DOMAIN values[c] : c \in DOMAIN values})
  IN [dates |-> ds, cols |-> cols, values |-> values,
      latestDate |-> IF Len(ds) # 0 THEN ds[Len(ds)] ELSE 0]

\* The workbooks loadStockXlsx returns: one without sheets, one with a price
\* sheet of two columns and a price-to-book sheet of one
Workbooks ==
  {buildEmptySheets,
   [prices |-> MkSheet(<<"A", "B">>,
                       [c \in {"A", "B"} |->
                          IF c = "A" THEN (20240226 :> 1 @@ 20240304 :> 2 @@ 20240312 :> 2)
                          ELSE (20240304 :> 1)]),
    ptb |-> MkSheet(<<"A">>, [c \in {"A"} |-> (20240306 :> 1)])]}

WindowInputs == {7, 45}

LagInputs == {3, 400}

PresetInputs == {"1m", "24m"}

CardFromInputs == {20240301}

CardToInputs == {20240307}

TopInputs == {1, 2}

RtmNext ==
  \/ LoadDone(RtmSeries, Workbooks)
  \/ SetWindowDays(WindowInputs)
  \/ SetMode
  \/ SetLagDays(LagInputs)
  \/ SetPreset(PresetInputs)
  \/ SetCardFromIso(CardFromInputs)
  \/ SetCardToIso(CardToInputs)
  \/ PickTop(TopInputs)

RtmInit == DashIdle /\ CardInit /\ PagesIdle /\ CallIdle

SpecRtm == RtmInit /\ [][RtmNext]_vars

(***************************************************************************)
(* SpecRange: the card loads its workbook, and the mode, the preset and    *)
(* the two date inputs are set.                                            *)
(***************************************************************************)
\* The dates of the From and To inputs: none, 10000-01-01, a day more than
\* 24 months before the anchor dates, days near them and a day after them
RangeFromInputs == {0, 100000101, 20220101, 20240301, 20250101}

RangeToInputs == {0, 100000101, 20220101, 20240307, 20250101}

RangePresets == {"1m", "3m", "6m", "12m", "24m", "36m", "ytd", "all"}

RangeNext ==
  \/ LoadDone({EmptyMap}, Workbooks)
  \/ SetMode
  \/ SetPreset(RangePresets)
  \/ SetCardFromIso(RangeFromInputs)
  \/ SetCardToIso(RangeToInputs)

RangeInit == DashIdle /\ CardInit /\ PagesIdle /\ CallIdle

SpecRange == RangeInit /\ [][RangeNext]_vars

(***************************************************************************)
(* Text.  A string is the sequence of its characters; a file's text is the *)
(* sequence of its lines, text.split(/\r?\n/).                             *)
(***************************************************************************)
Digits == {"0", "1", "2", "3", "4", "5", "6", "7", "8", "9"}

DigitVal(c) ==
  CASE c = "0" -> 0 [] c = "1" -> 1 [] c = "2" -> 2 [] c = "3" -> 3 [] c = "4" -> 4
    [] c = "5" -> 5 [] c = "6" -> 6 [] c = "7" -> 7 [] c = "8" -> 8 [] c = "9" -> 9

\* Number(s) of a string of digits
RECURSIVE DigitsVal(_)
DigitsVal(s) ==
  IF s = <<>> THEN 0
  ELSE DigitsVal(SubSeq(s, 1, Len(s) - 1)) * 10 + DigitVal(s[Len(s)])

\* \d{lo,hi}
IsDigits(s, lo, hi) == Len(s) \in lo..hi /\ \A i \in 1..Len(s) : s[i] \in Digits

\* String.prototype.trim (the texts hold no white space but the space)
Trim(s) ==
  IF \A i \in 1..Len(s) : s[i] = " " THEN <<>>
  ELSE LET a == CHOOSE i \in 1..Len(s) : s[i] # " " /\ \A j \in 1..(i - 1) : s[j] = " "
           b == CHOOSE i \in 1..Len(s) : s[i] # " " /\ \A j \in (i + 1)..Len(s) : s[j] = " "
       IN SubSeq(s, a, b)

\* String.prototype.split(ch) for a one-character separator
RECURSIVE SplitOn(_, _)
SplitOn(s, ch) ==
  IF \A i \in 1..Len(s) : s[i] # ch THEN <<s>>
  ELSE LET i == CHOOSE i \in 1..Len(s) : s[i] = ch /\ \A j \in 1..(i - 1) : s[j] # ch
       IN <<SubSeq(s, 1, i - 1)>> \o SplitOn(SubSeq(s, i + 1, Len(s)), ch)

UpperCase == <<"A", "B", "C", "D", "E", "F", "G", "H", "I", "J", "K", "L", "M",
               "N", "O", "P", "Q", "R", "S", "T", "U", "V", "W", "X", "Y", "Z">>

LowerCase == <<"a", "b", "c", "d", "e", "f", "g", "h", "i", "j", "k", "l", "m",
               "n", "o", "p", "q", "r", "s", "t", "u", "v", "w", "x", "y", "z">>

toLowerCase(s) ==
  [i \in 1..Len(s) |->
     IF \E j \in 1..26 : UpperCase[j] = s[i]
     THEN LowerCase[CHOOSE j \in 1..26 : UpperCase[j] = s[i]] ELSE s[i]]

\* String.prototype.includes
Includes(s, sub) == \E i \in 1..(Len(s) - Len(sub) + 1) : SubSeq(s, i, i + Len(sub) - 1) = sub

\* s.replace(/c/g, "")
RemoveAll(s, c) == SelectSeq(s, LAMBDA x : x # c)

\* Array.prototype.indexOf, 0-based, -1 when absent
indexOf(a, x) ==
  IF \E i \in 1..Len(a) : a[i] = x
  THEN (CHOOSE i \in 1..Len(a) : a[i] = x /\ \A j \in 1..(i - 1) : a[j] # x) - 1
  ELSE -1

\* Number(s) for the strings of digits, sign, point, letters and quotes: the
\* empty string is 0, a decimal literal its value, anything else NaN.  (No
\* text below holds an exponent, a hexadecimal literal or "Infinity".)
StringToNumber(s) ==
  LET t == Trim(s)
      signed == Len(t) > 0 /\ t[1] \in {"-", "+"}
      body == IF signed THEN SubSeq(t, 2, Len(t)) ELSE t
      parts == SplitOn(body, ".")
      int == parts[1]
      frac == IF Len(parts) = 2 THEN parts[2] ELSE <<>>
      ok == /\ Len(parts) <= 2
            /\ IsDigits(int, 0, Len(int)) /\ IsDigits(frac, 0, Len(frac))
            /\ Len(int) + Len(frac) >= 1
      mag == Rat(DigitsVal(int \o frac), Pow10(Len(frac)))
  IN IF t = <<>> THEN R(0)
     ELSE IF ~ok THEN <<0, 0>>
     ELSE IF signed /\ t[1] = "-" THEN RSub(R(0), mag) ELSE mag

(***************************************************************************)
(* Date text (ElectricityDashboard.tsx parseISOKey, parseInputDate).  The  *)
(* result is the calendar key, 0 for null.                                 *)
(***************************************************************************)
\* The round trip through Date.UTC that the day-first branches make
validDayFirst(dd, mm, yyyy) ==
  LET c == CivilFromDays(DateUTC(yyyy, mm - 1, dd))
  IN IF c[1] = yyyy /\ c[2] = mm /\ c[3] = dd THEN MkKey(yyyy, mm, dd) ELSE 0

\* parseISOKey for a text that matches \d{4}-\d{2}-\d{2}: new Date(s) is
\* invalid for a month outside 1..12 or a day outside 1..31.  For a day 29..31
\* past the end of its month the engines differ: V8 reads the date as rolled
\* over into the next month (lenient), so the text is returned as the key;
\* SpiderMonkey and JavaScriptCore read an invalid date.
Lenient == BOOLEAN

\* /^\d{4}-\d{2}-\d{2}$/.test(s)
isISOText(s) ==
  LET ps == SplitOn(s, "-")
  IN Len(ps) = 3 /\ IsDigits(ps[1], 4, 4) /\ IsDigits(ps[2], 2, 2) /\ IsDigits(ps[3], 2, 2)

parseISOKey(lenient, s) ==
  LET ps == SplitOn(s, "-")
      y == DigitsVal(ps[1])
      m == DigitsVal(ps[2])
      d == DigitsVal(ps[3])
  IN IF ~isISOText(s) THEN 0
     ELSE IF m \in 1..12 /\ d \in 1..31 /\ (lenient \/ d <= DaysInMonth(y, m))
       THEN MkKey(y, m, d)
     ELSE 0

\* A parser that reads the month before the day
parseInputDateMonthFirst(lenient, s) ==
  LET sl == SplitOn(Trim(s), "/")
  IN IF Len(sl) = 3 /\ IsDigits(sl[1], 1, 2) /\ IsDigits(sl[2], 1, 2) /\ IsDigits(sl[3], 2, 4)
     THEN validDayFirst(DigitsVal(sl[2]), DigitsVal(sl[1]),
                        IF Len(sl[3]) = 2 THEN 2000 + DigitsVal(sl[3]) ELSE DigitsVal(sl[3]))
     ELSE 0

parseInputDate(lenient, s) ==
  LET t == Trim(s)
      sl == SplitOn(t, "/")
      da == SplitOn(t, "-")
      three(ps, ylen) == /\ Len(ps) = 3 /\ IsDigits(ps[1], 1, 2)
                         /\ IsDigits(ps[2], 1, 2) /\ IsDigits(ps[3], ylen, ylen)
      two(ps, ylen) == Len(ps) = 2 /\ IsDigits(ps[1], 1, 2) /\ IsDigits(ps[2], ylen, ylen)
  IN IF three(sl, 4)
       THEN validDayFirst(DigitsVal(sl[1]), DigitsVal(sl[2]), DigitsVal(sl[3]))
     ELSE IF three(sl, 2)
       THEN validDayFirst(DigitsVal(sl[1]), DigitsVal(sl[2]), 2000 + DigitsVal(sl[3]))
     ELSE IF two(sl, 4)
       THEN (IF DigitsVal(sl[1]) \in 1..12 /\ DigitsVal(sl[2]) >= 1900
             THEN MkKey(DigitsVal(sl[2]), DigitsVal(sl[1]), 1) ELSE 0)
     ELSE IF two(sl, 2)
       THEN (IF DigitsVal(sl[1]) \in 1..12
             THEN MkKey(2000 + DigitsVal(sl[2]), DigitsVal(sl[1]), 1) ELSE 0)
     ELSE IF three(da, 4)
       THEN validDayFirst(DigitsVal(da[1]), DigitsVal(da[2]), DigitsVal(da[3]))
     ELSE IF three(da, 2)
       THEN validDayFirst(DigitsVal(da[1]), DigitsVal(da[2]), 2000 + DigitsVal(da[3]))
     ELSE IF isISOText(t)
       THEN parseISOKey(lenient, t)
     ELSE 0

(***************************************************************************)
(* CSV ingestion                                                           *)
(***************************************************************************)
\* text.split(/\r?\n/).map(trim).filter(Boolean)
nonEmptyLines(text) ==
  SelectSeq([i \in 1..Len(text) |-> Trim(text[i])], LAMBDA l : l # <<>>)

\* normalizeKey (the texts hold no en or em dashes)
normalizeKey(s) == RemoveAll(toLowerCase(Trim(s)), " ")

\* The fields of a line for a splitter that honours double quotes
RECURSIVE parseLineFrom(_, _, _, _, _)
parseLineFrom(line, i, cur, inQuotes, out) ==
  IF i > Len(line) THEN Append(out, Trim(cur))
  ELSE LET ch == line[i]
           next == IF i + 1 <= Len(line) THEN line[i + 1] ELSE ""
       IN IF ch = "\"" /\ inQuotes /\ next = "\""
            THEN parseLineFrom(line, i + 2, Append(cur, "\""), inQuotes, out)
          ELSE IF ch = "\""
            THEN parseLineFrom(line, i + 1, cur, ~inQuotes, out)
          ELSE IF ch = "," /\ ~inQuotes
            THEN parseLineFrom(line, i + 1, <<>>, inQuotes, Append(out, Trim(cur)))
          ELSE parseLineFrom(line, i + 1, Append(cur, ch), inQuotes, out)

\* ElectricityDashboard.tsx csvParse: line.split(",").map(trim)
csvParseCols(line) ==
  LET cols == SplitOn(line, ",") IN [i \in 1..Len(cols) |-> Trim(cols[i])]

\* RTMVsStocksDailyCard.tsx parseRtmCsv: lines[i].split(",").map(trim)
parseRtmCsvCols(line) ==
  LET cols == SplitOn(line, ",") IN [i \in 1..Len(cols) |-> Trim(cols[i])]

\* RatedCapacity.tsx parseCSVSimple: parseLine
parseLine(line) == parseLineFrom(line, 1, <<>>, FALSE, <<>>)

\* The loop of csvParse over the data rows
RECURSIVE csvParseRows(_, _, _, _, _)
csvParseRows(lenient, rows, valueIdx, i, acc) ==
  IF i > Len(rows) THEN acc
  ELSE LET row == rows[i]
           dRaw == row[1]
           vRaw == IF valueIdx + 1 <= Len(row) THEN row[valueIdx + 1] ELSE row[2]
           date == parseInputDate(lenient, dRaw)
           v == StringToNumber(RemoveAll(vRaw, ","))
       IN IF date = 0
            THEN csvParseRows(lenient, rows, valueIdx, i + 1,
                   [acc EXCEPT !.errors = Append(@, [row |-> i, invalid |-> "date", raw |-> dRaw])])
          ELSE IF ~NumberIsFinite(v)
            THEN csvParseRows(lenient, rows, valueIdx, i + 1,
                   [acc EXCEPT !.errors = Append(@, [row |-> i, invalid |-> "value", raw |-> vRaw])])
          ELSE csvParseRows(lenient, rows, valueIdx, i + 1,
                   [acc EXCEPT !.parsed = Append(@, [date |-> date, value |-> v])])

csvParse(lenient, text, valueColumnKey) ==
  LET lines == nonEmptyLines(text)
      rows == SelectSeq([i \in 1..Len(lines) |-> csvParseCols(lines[i])],
                        LAMBDA cols : Len(cols) >= 2)
  IN IF Len(rows) = 0 THEN [parsed |-> <<>>, errors |-> <<>>]
     ELSE LET h0 == toLowerCase(rows[1][1])
              hasHeader == Includes(h0, <<"d", "a", "t", "e">>)
              header == [i \in 1..Len(rows[1]) |-> normalizeKey(rows[1][i])]
              found == indexOf(header, normalizeKey(valueColumnKey))
              valueIdx == IF hasHeader /\ found # -1 THEN found ELSE 1
              data == IF hasHeader THEN Tail(rows) ELSE rows
          IN csvParseRows(lenient, data, valueIdx, 1, [parsed |-> <<>>, errors |-> <<>>])

\* mergeRecords: the loop over incoming writes to next, a copy of existingMap
RECURSIVE mergeRecordsFrom(_, _, _)
mergeRecordsFrom(next, incoming, i) ==
  IF i > Len(incoming) THEN next
  ELSE mergeRecordsFrom(Put(next, incoming[i].date, incoming[i].value), incoming, i + 1)

\* A merge in which a date already in the series keeps its value
mergeRecordsKeepExisting(existingMap, incoming) ==
  LET added == mergeRecordsFrom(EmptyMap, incoming, 1)
  IN [k \in DOMAIN existingMap \cup DOMAIN added |->
        IF k \in DOMAIN existingMap THEN existingMap[k] ELSE added[k]]

mergeRecords(existingMap, incoming) == mergeRecordsFrom(existingMap, incoming, 1)

\* importCSV: the series after setDataMap((prev) => mergeRecords(prev, parsed)),
\* which is not reached when no row was parsed
importCSV(lenient, prev, text, valueColumnKey) ==
  LET parsed == csvParse(lenient, text, valueColumnKey).parsed
  IN IF Len(parsed) = 0 THEN prev ELSE mergeRecords(prev, parsed)

(***************************************************************************)
(* The dashboard's series in memory and in browser storage: mount and      *)
(* unmount of the tab, the default-CSV effect, and the handlers that read  *)
(* texts.  The value texts of the inputs read as integers, and the series  *)
(* holds the integer n for the number n/1.                                 *)
(***************************************************************************)
\* The number v as the series holds it
numberOf(v) == v[1] \div v[2]

\* const m = new Map(); for (const r of parsed) m.set(r.date, r.value)
RECURSIVE mapOfParsed(_, _, _)
mapOfParsed(m, parsed, i) ==
  IF i > Len(parsed) THEN m
  ELSE mapOfParsed(Put(m, parsed[i].date, numberOf(parsed[i].value)), parsed, i + 1)

\* useState dataMap (initialiser): the entries of the stored object whose
\* key parseISOKey reads and whose value is finite
restoredMap(lenient, obj) ==
  LET d == [t \in DOMAIN obj |-> parseISOKey(lenient, t)]
  IN [k \in {d[t] : t \in DOMAIN obj} \ {0} |-> obj[CHOOSE t \in DOMAIN obj : d[t] = k]]

\* sampleCSV(valueColumnKey), as its lines
sampleCSV(valueColumnKey) ==
  <<<<"d", "a", "t", "e", ",">> \o valueColumnKey,
    <<"1", "8", "/", "1", "2", "/", "2", "0", "2", "5", ",", "1", "0">>,
    <<"1", "9", "/", "1", "2", "/", "2", "0", "2", "5", ",", "1", "1">>,
    <<"2", "0", "/", "1", "2", "/", "2", "0", "2", "5", ",", "1", "2">>>>

\* The messages of setErrors (an entry of errors is a record: a message, or
\* the row that csvParse reports)
CouldNotLoad == [message |-> "Could not load default CSV"]

NoValidDefaultRows == [message |-> "Default CSV loaded but no valid rows found"]

NoValidRows == [message |-> "No valid rows found in CSV."]

EnterValidDate == [message |-> "Please enter a valid date (DD-MM-YYYY or DD/MM/YYYY)."]

EnterValidNumber == [message |-> "Please enter a valid number."]

\* The tab of the dashboard is opened: the states are initialised, the
\* series from browser storage, and the effects run: the From / To
\* defaults, the write to browser storage and loadDefaultCSV
DashMount(maxLoads) ==
  /\ ~mounted
  /\ Len(loads) < maxLoads
  /\ mounted' = TRUE
  /\ dataMap' = restoredMap(engine, storage)
  /\ rangeDays' = 730
  /\ aggFreq' = "rolling30_avg"
  /\ fromIso' = EffectFrom(dataMap', 0, rangeDays')
  /\ toIso' = EffectTo(dataMap', 0)
  /\ storage' = storedObject(dataMap')
  /\ errors' = <<>>
  /\ fetchStatus' = Null
  /\ loads' = Append(loads, NewLoad)
  /\ UNCHANGED <<calcMode, engine, cardVars, call, pageVars>>

\* The tab is left: the cleanup of the effect sets cancelled, and the state
\* of the component is gone (the next mount starts from the initial values)
DashUnmount ==
  /\ mounted
  /\ mounted' = FALSE
  /\ loads' = [i \in DOMAIN loads |-> [loads[i] EXCEPT !.cancelled = TRUE]]
  /\ dataMap' = EmptyMap
  /\ fromIso' = 0
  /\ toIso' = 0
  /\ rangeDays' = 730
  /\ aggFreq' = "rolling30_avg"
  /\ errors' = <<>>
  /\ fetchStatus' = Null
  /\ UNCHANGED <<calcMode, storage, engine, cardVars, call, pageVars>>

\* An instance whose cleanup is taken not to have run
neverCancelled(load) == FALSE

\* if (cancelled) return, if (!cancelled)
isCancelled(load) == load.cancelled

\* setErrors((prev) => (prev.length ? prev : [message]))
errorsOr(prev, message) == IF Len(prev) # 0 THEN prev ELSE <<message>>

\* The fetch of an instance of loadDefaultCSV resolves with a text, or fails
\* (Null), and the load runs to its end
DefaultLoadSettles(Responses, valueColumnKey) ==
  \E i \in DOMAIN loads, text \in Responses :
    LET csv == IF text = Null THEN Null ELSE csvParse(engine, text, valueColumnKey)
        m == mapOfParsed(EmptyMap, csv.parsed, 1)
    IN /\ ~loads[i].settled
       /\ loads' = [loads EXCEPT ![i].settled = TRUE]
       /\ IF isCancelled(loads[i])
            THEN UNCHANGED <<dataMap, fromIso, toIso, storage, errors, fetchStatus>>
          ELSE IF text = Null
            THEN /\ errors' = errorsOr(errors, CouldNotLoad)
                 /\ UNCHANGED <<dataMap, fromIso, toIso, storage, fetchStatus>>
          ELSE IF Len(csv.parsed) = 0
            THEN /\ errors' = errorsOr(errors, NoValidDefaultRows)
                 /\ UNCHANGED <<dataMap, fromIso, toIso, storage, fetchStatus>>
          ELSE /\ dataMap' = m
               /\ fromIso' = EffectFrom(m, fromIso, rangeDays)
               /\ toIso' = EffectTo(m, toIso)
               /\ storage' = storedObject(m)
               /\ fetchStatus' = [rows |-> Len(csv.parsed), issues |-> Len(csv.errors)]
               /\ UNCHANGED errors
       /\ UNCHANGED <<rangeDays, aggFreq, calcMode, mounted, engine, cardVars, call, pageVars>>

\* upsertOne with the texts of the Date and the Value input
UpsertTexts(DateInputs, ValueInputs) ==
  \E date \in DateInputs, valueText \in ValueInputs :
    LET iso == parseInputDate(engine, date)
        v == StringToNumber(RemoveAll(valueText, ","))
    IN IF iso = 0 THEN SetDataAnd(dataMap, <<EnterValidDate>>)
       ELSE IF ~NumberIsFinite(v) THEN SetDataAnd(dataMap, <<EnterValidNumber>>)
       ELSE SetDataAnd(Put(dataMap, iso, numberOf(v)), <<>>)

\* importCSV with the text of the file
ImportFile(Texts, valueColumnKey) ==
  \E text \in Texts :
    LET csv == csvParse(engine, text, valueColumnKey)
        errs == SubSeq(csv.errors, 1, Min2(12, Len(csv.errors)))
    IN IF Len(csv.parsed) = 0 THEN SetDataAnd(dataMap, errorsOr(errs, NoValidRows))
       ELSE SetDataAnd(mapOfParsed(dataMap, csv.parsed, 1), errs)

\* loadSample
LoadSample(valueColumnKey) ==
  SetDataAnd(mapOfParsed(dataMap,
                         csvParse(engine, sampleCSV(valueColumnKey), valueColumnKey).parsed, 1),
             errors)

(***************************************************************************)
(* The Rated Capacity tab (part_000, and RatedCapacity.tsx where the two   *)
(* differ).  A month key "MM/YYYY" is the integer YYYYMM (Number(yyyy) *   *)
(* 100 + Number(mm)), which compareMonthKey orders as the integers are     *)
(* ordered; "" is 0.                                                       *)
(***************************************************************************)
\* safeNum of a text: Number(x) when it is finite, else 0
safeNum(x) == LET n == StringToNumber(x) IN IF NumberIsFinite(n) THEN n ELSE R(0)

\* s.replace(/\s+/g, " ")
RECURSIVE collapseSpaces(_)
collapseSpaces(s) ==
  IF Len(s) <= 1 THEN s
  ELSE IF s[1] = " " /\ s[2] = " " THEN collapseSpaces(Tail(s))
  ELSE <<s[1]>> \o collapseSpaces(Tail(s))

\* normalizeHeader (the texts hold no en or em dashes)
normalizeHeader(h) == collapseSpaces(toLowerCase(Trim(h)))

\* normalizeMonth: the month key, 0 for null
normalizeMonth(m) ==
  LET t == Trim(m)
      sl == SplitOn(t, "/")
      da == SplitOn(t, "-")
      two(ps, ylen) == Len(ps) = 2 /\ IsDigits(ps[1], 1, 2) /\ IsDigits(ps[2], ylen, ylen)
      three(ps, ylen) == /\ Len(ps) = 3 /\ IsDigits(ps[1], 1, 2)
                         /\ IsDigits(ps[2], 1, 2) /\ IsDigits(ps[3], ylen, ylen)
  IN IF two(sl, 4) THEN DigitsVal(sl[2]) * 100 + DigitsVal(sl[1])
     ELSE IF two(sl, 2) THEN (2000 + DigitsVal(sl[2])) * 100 + DigitsVal(sl[1])
     ELSE IF three(sl, 4) THEN DigitsVal(sl[3]) * 100 + DigitsVal(sl[2])
     ELSE IF three(sl, 2) THEN (2000 + DigitsVal(sl[3])) * 100 + DigitsVal(sl[2])
     ELSE IF three(da, 4) THEN DigitsVal(da[3]) * 100 + DigitsVal(da[2])
     ELSE IF three(da, 2) THEN (2000 + DigitsVal(da[3])) * 100 + DigitsVal(da[2])
     ELSE 0

\* compareMonthKey(a, b): negative, zero or positive
compareMonthKey(a, b) ==
  IF a \div 100 # b \div 100 THEN (a \div 100) - (b \div 100) ELSE (a % 100) - (b % 100)

\* The loop of minusMonths
RECURSIVE minusMonthsLoop(_, _, _)
minusMonthsLoop(m, y, left) ==
  IF left <= 0 THEN y * 100 + m
  ELSE IF m - 1 <= 0 THEN minusMonthsLoop(12, y - 1, left - 1)
  ELSE minusMonthsLoop(m - 1, y, left - 1)

minusMonths(mk, monthsBack) == minusMonthsLoop(mk % 100, mk \div 100, monthsBack)

\* options.slice().sort(compareMonthKey) of a list of month keys
RECURSIVE sortMonths(_)
sortMonths(options) ==
  IF Len(options) <= 1 THEN options
  ELSE LET rest == sortMonths(Tail(options))
           before == SelectSeq(rest, LAMBDA o : compareMonthKey(o, Head(options)) < 0)
           after == SelectSeq(rest, LAMBDA o : compareMonthKey(o, Head(options)) >= 0)
       IN before \o <<Head(options)>> \o after

\* The month key as it is, not clamped
unclampedMonthKey(target, options) == target

\* clampMonthKeyToOptions
clampMonthKeyToOptions(target, options) ==
  LET sorted == sortMonths(options)
      notAfter == {i \in 1..Len(sorted) : compareMonthKey(sorted[i], target) <= 0}
  IN IF Len(options) = 0 THEN target
     ELSE IF \E i \in 1..Len(options) : options[i] = target THEN target
     ELSE IF notAfter # {} THEN sorted[SetMax(notAfter)]
     ELSE sorted[1]

\* inputValueToMonthKey of the text of a month input, "YYYY-MM"
inputValueToMonthKey(v) ==
  LET ps == SplitOn(v, "-")
  IN IF Len(ps) = 2 /\ IsDigits(ps[1], 4, 4) /\ IsDigits(ps[2], 2, 2)
     THEN DigitsVal(ps[1]) * 100 + DigitsVal(ps[2]) ELSE 0

\* parseCSVSimple
parseCSVSimple(text) ==
  LET lines == nonEmptyLines(text)
  IN IF Len(lines) = 0 THEN [header |-> <<>>, rows |-> <<>>]
     ELSE [header |-> parseLine(lines[1]),
           rows |-> [i \in 1..(Len(lines) - 1) |-> parseLine(lines[i + 1])]]

\* findIndex, 0-based, -1 when no element satisfies the test
findIndex(a, Test(_)) ==
  IF \E i \in 1..Len(a) : Test(a[i])
  THEN (CHOOSE i \in 1..Len(a) : Test(a[i]) /\ \A j \in 1..(i - 1) : ~Test(a[j])) - 1
  ELSE -1

MonthHeaders ==
  {<<"m", "o", "n", "t", "h">>, <<"d", "a", "t", "e">>,
   <<"c", "a", "p", "a", "c", "i", "t", "y", " ", "(", "g", "w", ")">>,
   <<"c", "a", "p", "a", "c", "i", "t", "y", "(", "g", "w", ")">>}

\* The name of a source as the header row of the file writes it
SourceName(s) ==
  CASE s = "Coal" -> <<"C", "o", "a", "l">>
    [] s = "Oil & Gas" -> <<"O", "i", "l", " ", "&", " ", "G", "a", "s">>
    [] s = "Nuclear" -> <<"N", "u", "c", "l", "e", "a", "r">>
    [] s = "Hydro" -> <<"H", "y", "d", "r", "o">>
    [] s = "Solar" -> <<"S", "o", "l", "a", "r">>
    [] s = "Wind" -> <<"W", "i", "n", "d">>
    [] s = "Small-Hydro" -> <<"S", "m", "a", "l", "l", "-", "H", "y", "d", "r", "o">>
    [] s = "Bio Power" -> <<"B", "i", "o", " ", "P", "o", "w", "e", "r">>

\* parsed.sort((a, b) => compareMonthKey(a.month, b.month)), a stable sort
RECURSIVE sortByMonth(_)
sortByMonth(rows) ==
  IF Len(rows) <= 1 THEN rows
  ELSE LET rest == sortByMonth(Tail(rows))
           before == SelectSeq(rest, LAMBDA r : compareMonthKey(r.month, Head(rows).month) < 0)
           after == SelectSeq(rest, LAMBDA r : compareMonthKey(r.month, Head(rows).month) >= 0)
       IN before \o <<Head(rows)>> \o after

\* The rows loadInstalledFromLatestCapacityCSV and loadHistory parse from the
\* text of capacity.csv, sorted by month; Null where the code throws
monthRows(text) ==
  LET csv == parseCSVSimple(text)
      normHeaders == [i \in 1..Len(csv.header) |-> normalizeHeader(csv.header[i])]
      monthIdx == findIndex(normHeaders, LAMBDA h : h \in MonthHeaders)
      sourceIdx == [s \in SourceSet |->
                      findIndex(normHeaders, LAMBDA h : h = normalizeHeader(SourceName(s)))]
      field(row, idx) == IF idx + 1 <= Len(row) THEN row[idx + 1] ELSE <<>>
      rowOf(row) == [month |-> normalizeMonth(field(row, monthIdx)),
                     values |-> [s \in SourceSet |->
                                   IF sourceIdx[s] >= 0 THEN safeNum(field(row, sourceIdx[s]))
                                   ELSE R(0)]]
      parsed == SelectSeq([i \in 1..Len(csv.rows) |-> rowOf(csv.rows[i])],
                          LAMBDA r : r.month # 0)
  IN IF Len(csv.header) = 0 \/ Len(csv.rows) = 0 \/ monthIdx = -1 THEN Null
     ELSE sortByMonth(parsed)

\* The value loadInstalledFromLatestCapacityCSV passes to setInstalled: a copy
\* of the installed values of the render that started the load, with every
\* source set from the latest row.  Null where the code throws.
installedFromLatest(text, atMount) ==
  LET parsed == monthRows(text)
      latest == parsed[Len(parsed)]
  IN IF parsed = Null THEN Null
     ELSE IF Len(parsed) = 0 THEN Null
     ELSE [s \in SourceSet |->
             IF NumberIsFinite(latest.values[s]) THEN latest.values[s] ELSE atMount[s]]

\* The value RatedCapacity.tsx loadCapacitySingleRow passes to setInstalled:
\* the first data row, read by the header names as the file writes them
installedFromFirstRow(text, atMount) ==
  LET csv == parseCSVSimple(text)
      row == csv.rows[1]
      idx(s) == SetMax({i \in 1..Len(csv.header) : csv.header[i] = SourceName(s)} \cup {0})
      field(s) == IF idx(s) = 0 THEN Null
                  ELSE IF idx(s) <= Len(row) THEN row[idx(s)] ELSE <<>>
  IN IF Len(csv.header) = 0 \/ Len(csv.rows) = 0 THEN Null
     ELSE [s \in SourceSet |-> IF field(s) = Null THEN R(0) ELSE safeNum(field(s))]

\* Array.from(new Set(opts)): the first occurrence of each element
RECURSIVE uniq(_)
uniq(opts) ==
  IF opts = <<>> THEN <<>>
  ELSE LET front == uniq(SubSeq(opts, 1, Len(opts) - 1))
           last == opts[Len(opts)]
       IN IF \E i \in 1..Len(front) : front[i] = last THEN front ELSE Append(front, last)

\* monthOptions
monthOptions(hist) ==
  sortMonths(uniq(SelectSeq([i \in 1..Len(hist) |-> hist[i].month], LAMBDA m : m # 0)))

\* The effect on [monthOptions, latestMonth, defaultStartMonth], then the
\* effect on [startMonth, endMonth]: the months they leave
monthsAfterOptions(hist, start, end) ==
  LET opts == monthOptions(hist)
      latestMonth == opts[Len(opts)]
      defaultStartMonth == clampMonthKeyToOptions(minusMonths(latestMonth, 12), opts)
      startDefault == IF defaultStartMonth # 0 THEN defaultStartMonth
                      ELSE IF opts[Max2(0, Len(opts) - 13) + 1] # 0
                        THEN opts[Max2(0, Len(opts) - 13) + 1]
                      ELSE opts[1]
  IN IF Len(opts) = 0 THEN [start |-> start, end |-> end]
     ELSE [start |-> IF start # 0 THEN clampMonthKeyToOptions(start, opts) ELSE startDefault,
           end |-> IF end # 0 THEN clampMonthKeyToOptions(end, opts) ELSE latestMonth]

\* The effect on [startMonth, endMonth]: the start month it leaves
startAfterOrder(start, end) ==
  IF start # 0 /\ end # 0 /\ compareMonthKey(start, end) > 0 THEN end ELSE start

(***************************************************************************)
(* RTMVsStocksDailyCard.tsx: parseInputDate for a text and parseRtmCsv.    *)
(***************************************************************************)
\* The day-first branches of the card's parseInputDate: new Date(Date.UTC(
\* yyyy, mm - 1, dd)) is a valid date for every day and month of one or two
\* digits, so the key is written from the numbers as they were read
keyDayFirst(dd, mm, yyyy) == MkKey(yyyy, mm, dd)

\* The text branches of the card's parseInputDate
parseInputDateText(lenient, s) ==
  LET t == Trim(s)
      sl == SplitOn(t, "/")
      da == SplitOn(t, "-")
      three(ps, ylen) == /\ Len(ps) = 3 /\ IsDigits(ps[1], 1, 2)
                         /\ IsDigits(ps[2], 1, 2) /\ IsDigits(ps[3], ylen, ylen)
  IN IF t = <<>> THEN 0
     ELSE IF three(sl, 4)
       THEN keyDayFirst(DigitsVal(sl[1]), DigitsVal(sl[2]), DigitsVal(sl[3]))
     ELSE IF three(sl, 2)
       THEN keyDayFirst(DigitsVal(sl[1]), DigitsVal(sl[2]), 2000 + DigitsVal(sl[3]))
     ELSE IF three(da, 4)
       THEN keyDayFirst(DigitsVal(da[1]), DigitsVal(da[2]), DigitsVal(da[3]))
     ELSE IF three(da, 2)
       THEN keyDayFirst(DigitsVal(da[1]), DigitsVal(da[2]), 2000 + DigitsVal(da[3]))
     ELSE IF isISOText(t)
       THEN parseISOKey(lenient, t)
     ELSE 0

\* A cell of a sheet or a field of a line as the parser receives it: a string,
\* a Date (the instant in minutes since the epoch and the offset of local time
\* from UTC in minutes), a number (whole) or nothing
StringCell(s) == [kind |-> "string", text |-> s]

DateCell(utcMinutes, offset) == [kind |-> "date", utcMinutes |-> utcMinutes, offset |-> offset]

NumberCell(n) == [kind |-> "number", n |-> n]

EmptyCell == [kind |-> "empty"]

\* getFullYear(), getMonth() + 1 and getDate() of a Date, as a key
dateObjToLocalISO(d) == IsoOfDay((d.utcMinutes + d.offset) \div 1440)

\* d.toISOString().slice(0, 10) of a Date
toISODate(d) == IsoOfDay(d.utcMinutes \div 1440)

\* Excel serial (a whole number of days) counted from 1899-12-30
excelSerialToISO(n) == IsoOfDay(DateUTC(1899, 11, 30) + n)

\* The branches of parseInputDate for a number, what is no string, a string
parseInputDateOther(lenient, s) ==
  IF s.kind = "number" /\ s.n > 20000 /\ s.n < 80000 THEN excelSerialToISO(s.n)
  ELSE IF s.kind # "string" THEN 0
  ELSE parseInputDateText(lenient, s.text)

\* RTMVsStocksDailyCard.tsx parseInputDate
parseInputDateRtm(lenient, s) ==
  IF s.kind = "date" THEN dateObjToLocalISO(s) ELSE parseInputDateOther(lenient, s)

\* The card's earlier version with a spreadsheet reader: a Date is written
\* with toISOString
parseInputDateUTC(lenient, s) ==
  IF s.kind = "date" THEN toISODate(s) ELSE parseInputDateOther(lenient, s)

\* The card's earlier version that reads strings only
parseInputDateStrings(lenient, s) ==
  IF s.kind # "string" THEN 0 ELSE parseInputDateText(lenient, s.text)

\* asFiniteNumber of a string: Number(v) when it is finite, else null
asFiniteNumber(s) ==
  LET n == StringToNumber(s) IN IF NumberIsFinite(n) THEN n ELSE Null

\* The loop of parseRtmCsv over lines[1 ..] (lines[i] is lines[i - 1] of the code)
RECURSIVE parseRtmCsvRows(_, _, _, _, _)
parseRtmCsvRows(lenient, lines, valueIdx, i, m) ==
  IF i > Len(lines) THEN m
  ELSE LET cols == parseRtmCsvCols(lines[i])
           d == parseInputDateRtm(lenient, StringCell(cols[1]))
           vRaw == IF valueIdx + 1 <= Len(cols) THEN cols[valueIdx + 1] ELSE cols[2]
           v == asFiniteNumber(RemoveAll(vRaw, ","))
       IN IF Len(cols) < 2 THEN parseRtmCsvRows(lenient, lines, valueIdx, i + 1, m)
          ELSE IF d = 0 \/ v = Null THEN parseRtmCsvRows(lenient, lines, valueIdx, i + 1, m)
          ELSE parseRtmCsvRows(lenient, lines, valueIdx, i + 1, Put(m, d, v))

parseRtmCsv(lenient, text, valueColumnKey) ==
  LET lines == nonEmptyLines(text)
  IN IF Len(lines) < 2 THEN EmptyMap
     ELSE LET hcols == SplitOn(lines[1], ",")
              header == [i \in 1..Len(hcols) |-> normalizeKey(hcols[i])]
              found == indexOf(header, normalizeKey(valueColumnKey))
              valueIdx == IF found >= 0 THEN found ELSE 1
          IN parseRtmCsvRows(lenient, lines, valueIdx, 2, EmptyMap)

(***************************************************************************)
(* RTMVsStocksDailyCard.tsx loadStockXlsx: parseSheet.  aoa is the sheet   *)
(* as sheet_to_json(ws, {header: 1, raw: true}) returns it, a sequence of  *)
(* rows of cells; a cell the sheet does not have is EmptyCell.             *)
(***************************************************************************)
\* row[i - 1]: undefined past the end of the row
cellAt(row, i) == IF i <= Len(row) THEN row[i] ELSE EmptyCell

\* String(n) of a whole number n >= 0
RECURSIVE NatText(_)
NatText(n) ==
  IF n < 10 THEN <<DigitChars[n + 1]>>
  ELSE NatText(n \div 10) \o <<DigitChars[(n % 10) + 1]>>

\* String(x ?? "").trim() of a header cell (a string, a number or nothing)
headerText(c) ==
  IF c.kind = "string" THEN Trim(c.text)
  ELSE IF c.kind = "number" THEN NatText(c.n)
  ELSE <<>>

\* asFiniteNumber of a cell: a number is returned as it is, anything else goes
\* through Number(v): a string as StringToNumber reads it, a Date as its
\* getTime() in milliseconds, undefined as NaN
asFiniteNumberCell(c) ==
  IF c.kind = "number" THEN R(c.n)
  ELSE IF c.kind = "string" THEN asFiniteNumber(c.text)
  ELSE IF c.kind = "date" THEN R(c.utcMinutes * 60000)
  ELSE Null

\* The inner loop of parseSheet over the columns: values.get(colName).set(d, v)
RECURSIVE setRowValues(_, _, _, _, _)
setRowValues(values, cols, row, d, ci) ==
  IF ci > Len(cols) THEN values
  ELSE LET v == asFiniteNumberCell(cellAt(row, ci + 1))
       IN IF v = Null THEN setRowValues(values, cols, row, d, ci + 1)
          ELSE setRowValues([values EXCEPT ![cols[ci]] = Put(@, d, v)], cols, row, d, ci + 1)

\* The loop of parseSheet over the rows aoa[1 ..] (aoa[r] is aoa[r - 1] of the
\* code)
RECURSIVE parseSheetRows(_, _, _, _, _)
parseSheetRows(lenient, aoa, cols, r, acc) ==
  IF r > Len(aoa) THEN acc
  ELSE LET row == aoa[r]
           d == parseInputDateRtm(lenient, cellAt(row, 1))
           any == \E ci \in 1..Len(cols) : asFiniteNumberCell(cellAt(row, ci + 1)) # Null
       IN IF d = 0 THEN parseSheetRows(lenient, aoa, cols, r + 1, acc)
          ELSE parseSheetRows(lenient, aoa, cols, r + 1,
                 [dates |-> IF any THEN Append(acc.dates, d) ELSE acc.dates,
                  values |-> setRowValues(acc.values, cols, row, d, 1)])

\* dates.sort() for keys of four-digit years
RECURSIVE sortKeys(_)
sortKeys(ds) ==
  IF Len(ds) <= 1 THEN ds
  ELSE LET rest == sortKeys(Tail(ds))
           before == SelectSeq(rest, LAMBDA x : x < Head(ds))
           after == SelectSeq(rest, LAMBDA x : x >= Head(ds))
       IN before \o <<Head(ds)>> \o after

\* parseSheet of a sheet that has the rows aoa (no rows, too, for a workbook
\* without the sheet)
parseSheet(lenient, aoa) ==
  IF Len(aoa) < 2 THEN EmptySheet
  ELSE LET header == [i \in 1..Len(aoa[1]) |-> headerText(aoa[1][i])]
           cols == SelectSeq(SubSeq(header, 2, Len(header)), LAMBDA h : h # <<>>)
           start == [dates |-> <<>>, values |-> [c \in {cols[i] : i \in 1..Len(cols)} |-> EmptyMap]]
           done == parseSheetRows(lenient, aoa, cols, 2, start)
           dates == sortKeys(done.dates)
       IN [dates |-> dates, cols |-> cols, values |-> done.values,
           latestDate |-> IF Len(dates) # 0 THEN dates[Len(dates)] ELSE 0]

(***************************************************************************)
(* Applications of pure functions: a call starts with its arguments drawn  *)
(* from bounded sets and its one step applies the function.                *)
(***************************************************************************)
Pending(fn, args) == [fn |-> fn, args |-> args, done |-> FALSE, out |-> Null]

Starts(fn) == call # Null /\ call.fn = fn /\ ~call.done

Returns(out) ==
  /\ call' = [call EXCEPT !.done = TRUE, !.out = out]
  /\ UNCHANGED <<dashVars, cardVars, storeVars, pageVars>>

\* The finite numbers n/d of the growth calls
GrowthValues == {Rat(n, d) : n \in (0 - MaxValue)..MaxValue, d \in 1..2}

GrowthFns == {"growthPct", "growthPctRtm", "growthPctCapacity"}

GrowthCalls ==
  {Pending(fn, [curr |-> c, prev |-> p]) :
     fn \in GrowthFns, c \in GrowthValues, p \in GrowthValues \cup {Null}}

ApplyGrowthPct ==
  Starts("growthPct") /\ Returns(growthPct(call.args.curr, call.args.prev))

ApplyGrowthPctRtm ==
  Starts("growthPctRtm") /\ Returns(growthPctRtm(call.args.curr, call.args.prev))

ApplyGrowthPctCapacity ==
  Starts("growthPctCapacity") /\ Returns(growthPctCapacity(call.args.curr, call.args.prev))

GrowthNext == ApplyGrowthPct \/ ApplyGrowthPctRtm \/ ApplyGrowthPctCapacity

GrowthInit == DashIdle /\ CardInit /\ PagesIdle /\ call \in GrowthCalls

SpecGrowth == GrowthInit /\ [][GrowthNext]_vars

\* The series of the rolling calls: at most MaxPoints values on RollDates
RollDates == {20240120, 20240228, 20240305}

RollSeries ==
  UNION {[S -> Values] : S \in {T \in SUBSET RollDates : Cardinality(T) <= MaxPoints}}

\* Anchors before, on and after the dates, and on both sides of the day a
\* date leaves a window of 7, 14, 30 or 45 days
RollAnchors ==
  {20240119, 20240120, 20240228, 20240304, 20240305, 20240306, 20240311,
   20240312, 20240313, 20240328, 20240329, 20240419, 20240501}

RollWindows == {7, 14, 30, 45}

\* The window lengths of the stock calls: the card passes 7, 14, 30 or 45;
\* the function takes any length, and 1 and 2 are shorter than the series
StockWindows == {1, 2, 7}

RollingCalls ==
  {Pending("rollingAvgRtm", [series |-> sr, anchor |-> a, n |-> n]) :
     sr \in RollSeries, a \in RollAnchors, n \in RollWindows}
  \cup
  {Pending("rollingCurr", [series |-> sr, anchor |-> a, n |-> n, isSum |-> FALSE]) :
     sr \in RollSeries, a \in RollAnchors, n \in RollWindows}
  \cup
  {Pending("rollingCurr", [series |-> sr, anchor |-> a, n |-> 30, isSum |-> TRUE]) :
     sr \in RollSeries, a \in RollAnchors}
  \cup
  {Pending("rollingAvgStocks", [series |-> sr, anchor |-> a, n |-> n]) :
     sr \in RollSeries, a \in RollAnchors, n \in StockWindows}

ApplyRollingAvgRtm ==
  Starts("rollingAvgRtm")
  /\ Returns(rollingAvgRtm(call.args.series, call.args.anchor, call.args.n))

\* The dashboard's chart computes the window of n days with back = n - 1
ApplyRollingCurr ==
  Starts("rollingCurr")
  /\ Returns(rollingCurrOf(call.args.series, call.args.anchor, call.args.n - 1, call.args.isSum))

ApplyRollingAvgStocks ==
  Starts("rollingAvgStocks")
  /\ Returns(rollingAvgStocks(call.args.series, call.args.anchor, call.args.n))

RollingNext == ApplyRollingAvgRtm \/ ApplyRollingCurr \/ ApplyRollingAvgStocks

RollingInit == DashIdle /\ CardInit /\ PagesIdle /\ call \in RollingCalls

SpecRolling == RollingInit /\ [][RollingNext]_vars

(***************************************************************************)
(* SpecCsv: csvParse is applied to files of at most MaxLines lines, and    *)
(* the three line splitters to the line that encodes a row of fields.      *)
(***************************************************************************)
MaxLines == 3

MaxFields == 3

\* The lines of the files: "date,coal", "date,total,coal", "01/03/2024,5",
\* "02/03/2024,9,7", "31/02/2024,5" (no such day), "03/03/2024,x" (no
\* number), "04/03/2024" (one field), "05/03/2024,"1,234"" (a quoted value),
\* "2024-02-30,4" (no such day, in the canonical notation) and a line of
\* spaces
CsvLines ==
  {<<"d", "a", "t", "e", ",", "c", "o", "a", "l">>,
   <<"d", "a", "t", "e", ",", "t", "o", "t", "a", "l", ",", "c", "o", "a", "l">>,
   <<"0", "1", "/", "0", "3", "/", "2", "0", "2", "4", ",", "5">>,
   <<"0", "2", "/", "0", "3", "/", "2", "0", "2", "4", ",", "9", ",", "7">>,
   <<"3", "1", "/", "0", "2", "/", "2", "0", "2", "4", ",", "5">>,
   <<"0", "3", "/", "0", "3", "/", "2", "0", "2", "4", ",", "x">>,
   <<"0", "4", "/", "0", "3", "/", "2", "0", "2", "4">>,
   <<"0", "5", "/", "0", "3", "/", "2", "0", "2", "4", ",", "\"", "1", ",", "2", "3", "4", "\"">>,
   <<"2", "0", "2", "4", "-", "0", "2", "-", "3", "0", ",", "4">>,
   <<" ", " ">>}

CsvTexts(maxLines) == UNION {[1..n -> CsvLines] : n \in 1..maxLines}

\* The valueColumnKey prop of the coal tab
CoalKey == <<"c", "o", "a", "l">>

\* The fields of the rows: "01/03/2024", "5", "1,234", "a"b" and ""
CsvFields ==
  {<<"0", "1", "/", "0", "3", "/", "2", "0", "2", "4">>,
   <<"5">>,
   <<"1", ",", "2", "3", "4">>,
   <<"a", "\"", "b">>,
   <<>>}

CsvRows(maxFields) == UNION {[1..n -> CsvFields] : n \in 1..maxFields} \ {<< <<>> >>}

\* A field as a CSV writer puts it on a line: between double quotes, with
\* its quotes doubled, when it holds a comma or a quote
RECURSIVE DoubleQuotes(_)
DoubleQuotes(f) ==
  IF f = <<>> THEN <<>>
  ELSE (IF f[1] = "\"" THEN <<"\"", "\"">> ELSE <<f[1]>>) \o DoubleQuotes(Tail(f))

CsvField(f) ==
  IF \E i \in 1..Len(f) : f[i] \in {",", "\""}
  THEN <<"\"">> \o DoubleQuotes(f) \o <<"\"">> ELSE f

RECURSIVE CsvLine(_)
CsvLine(row) ==
  IF Len(row) = 1 THEN CsvField(row[1])
  ELSE CsvField(row[1]) \o <<",">> \o CsvLine(Tail(row))

\* The series and the rows of the merge calls: a series on two dates and at
\* most MaxLines rows on two dates, one of them in the series
MergeSeries == UNION {[S -> {R(1), R(2)}] : S \in SUBSET {20240301, 20240304}}

MergePoints == [date : {20240301, 20240302}, value : {R(0), R(1), R(2)}]

MergeRows(maxLines) == UNION {[1..n -> MergePoints] : n \in 0..maxLines}

\* The lines of the imported files: "date,coal", "01/03/2024,5", "01/03/2024,2",
\* "02/03/2024,9,7" and "03/03/2024,x"
ImportLines ==
  {<<"d", "a", "t", "e", ",", "c", "o", "a", "l">>,
   <<"0", "1", "/", "0", "3", "/", "2", "0", "2", "4", ",", "5">>,
   <<"0", "1", "/", "0", "3", "/", "2", "0", "2", "4", ",", "2">>,
   <<"0", "2", "/", "0", "3", "/", "2", "0", "2", "4", ",", "9", ",", "7">>,
   <<"0", "3", "/", "0", "3", "/", "2", "0", "2", "4", ",", "x">>}

ImportTexts(maxLines) == UNION {[1..n -> ImportLines] : n \in 1..maxLines}

SplitterFns == {"csvParseCols", "parseRtmCsvCols", "parseLine"}

CsvCalls(maxLines, maxFields) ==
  {Pending(fn, [lenient |-> e, text |-> t, valueColumnKey |-> CoalKey]) :
     fn \in {"csvParse", "parseRtmCsv"}, e \in Lenient, t \in CsvTexts(maxLines)}
  \cup
  {Pending(fn, [fields |-> row, line |-> CsvLine(row)]) :
     fn \in SplitterFns, row \in CsvRows(maxFields)}

MergeCalls(maxLines) ==
  {Pending("mergeRecords", [existingMap |-> s, incoming |-> rows]) :
     s \in MergeSeries, rows \in MergeRows(maxLines)}
  \cup
  {Pending("importCSV", [lenient |-> TRUE, prev |-> s, text |-> t, valueColumnKey |-> CoalKey]) :
     s \in MergeSeries, t \in ImportTexts(maxLines)}

ApplyCsvParse ==
  Starts("csvParse") /\ Returns(csvParse(call.args.lenient, call.args.text, call.args.valueColumnKey))

ApplyParseRtmCsv ==
  Starts("parseRtmCsv")
  /\ Returns(parseRtmCsv(call.args.lenient, call.args.text, call.args.valueColumnKey))

\* The call returns next; existingMap is the argument after the call
ApplyMergeRecords ==
  Starts("mergeRecords")
  /\ Returns([next |-> mergeRecords(call.args.existingMap, call.args.incoming),
              existingMap |-> call.args.existingMap])

ApplyImportCSV ==
  Starts("importCSV")
  /\ Returns(importCSV(call.args.lenient, call.args.prev, call.args.text,
                       call.args.valueColumnKey))

ApplyCsvParseCols == Starts("csvParseCols") /\ Returns(csvParseCols(call.args.line))

ApplyParseRtmCsvCols == Starts("parseRtmCsvCols") /\ Returns(parseRtmCsvCols(call.args.line))

ApplyParseLine == Starts("parseLine") /\ Returns(parseLine(call.args.line))

CsvNext ==
  \/ ApplyCsvParse
  \/ ApplyParseRtmCsv
  \/ ApplyCsvParseCols
  \/ ApplyParseRtmCsvCols
  \/ ApplyParseLine

CsvInit == DashIdle /\ CardInit /\ PagesIdle /\ call \in CsvCalls(MaxLines, MaxFields)

SpecCsv == CsvInit /\ [][CsvNext]_vars

(***************************************************************************)
(* SpecMerge: parsed rows are merged into a series, by mergeRecords and by *)
(* the import of a file.                                                   *)
(***************************************************************************)
MergeNext == ApplyMergeRecords \/ ApplyImportCSV

MergeInit == DashIdle /\ CardInit /\ PagesIdle /\ call \in MergeCalls(MaxLines)

SpecMerge == MergeInit /\ [][MergeNext]_vars

(***************************************************************************)
(* Control bands.  A band is given by its mean and its variance: sd is the *)
(* square root of the variance and p1, p2, m1, m2 are mean +/- sd and      *)
(* mean +/- 2 sd, all of them functions of the two.                        *)
(***************************************************************************)
RAdd(a, b) == Rat(a[1] * b[2] + b[1] * a[2], a[2] * b[2])

\* values.reduce((a, b) => a + b, 0)
RECURSIVE sumOfValues(_, _)
sumOfValues(values, i) ==
  IF i > Len(values) THEN R(0) ELSE RAdd(values[i], sumOfValues(values, i + 1))

meanOfValues(values) == RDiv(sumOfValues(values, 1), R(Len(values)))

\* values.reduce((a, b) => a + (b - mean) * (b - mean), 0)
RECURSIVE squaresAbout(_, _, _)
squaresAbout(values, mean, i) ==
  IF i > Len(values) THEN R(0)
  ELSE RAdd(RMul(RSub(values[i], mean), RSub(values[i], mean)), squaresAbout(values, mean, i + 1))

\* The band of the dashboard and of the capacity card: variance over n
bandOverN(values) ==
  IF Len(values) < 2 THEN Null
  ELSE [mean |-> meanOfValues(values),
        variance |-> RDiv(squaresAbout(values, meanOfValues(values), 1), R(Len(values)))]

\* The band of the same computations when a single value is let through
bandOverNFromOne(values) ==
  IF Len(values) < 1 THEN Null
  ELSE [mean |-> meanOfValues(values),
        variance |-> RDiv(squaresAbout(values, meanOfValues(values), 1), R(Len(values)))]

\* The fields of the points that are not null, in order
RECURSIVE valuesOf(_, _, _)
valuesOf(points, field, i) ==
  IF i > Len(points) THEN <<>>
  ELSE (IF points[i][field] # Null THEN <<points[i][field]>> ELSE <<>>)
       \o valuesOf(points, field, i + 1)

controlStatsLeft(showControlLines, points, showUnitsSeries, showPrevYearSeries) ==
  IF ~showControlLines THEN Null
  ELSE IF Len(points) = 0 THEN Null
  ELSE IF showUnitsSeries THEN bandOverN([i \in 1..Len(points) |-> points[i].units])
  ELSE IF showPrevYearSeries THEN bandOverN(valuesOf(points, "prev_year_units", 1))
  ELSE Null

controlStatsYoY(showControlLines, points, showYoYSeries) ==
  IF ~showControlLines THEN Null
  ELSE IF Len(points) = 0 THEN Null
  ELSE IF ~showYoYSeries THEN Null
  ELSE bandOverN(valuesOf(points, "yoy_pct", 1))

\* CapacityCard: the same over the filtered points; with neither series
\* shown the list of values stays empty
controlStatsLeftCapacity(showControlLines, filtered, showUnitsSeries, showPrevYearSeries) ==
  IF ~showControlLines THEN Null
  ELSE IF Len(filtered) = 0 THEN Null
  ELSE IF showUnitsSeries THEN bandOverN([i \in 1..Len(filtered) |-> filtered[i].units])
  ELSE IF showPrevYearSeries THEN bandOverN(valuesOf(filtered, "prev_year_units", 1))
  ELSE bandOverN(<<>>)

controlStatsYoYCapacity(showControlLines, filtered, showYoYSeries) ==
  IF ~showControlLines THEN Null
  ELSE IF Len(filtered) = 0 THEN Null
  ELSE IF ~showYoYSeries THEN Null
  ELSE bandOverN(valuesOf(filtered, "yoy_pct", 1))

\* chartData.map((r) => asFiniteNumber(r?.rtm)).filter(...)
RECURSIVE finiteRtm(_, _)
finiteRtm(rows, i) ==
  IF i > Len(rows) THEN <<>>
  ELSE (IF NumberIsFinite(rows[i].rtm) THEN <<rows[i].rtm>> ELSE <<>>) \o finiteRtm(rows, i + 1)

\* The band of the RTM card: variance over n - 1, and 0 for a single value
rtmControlOf(vals) ==
  IF Len(vals) = 0 THEN Null
  ELSE [mean |-> meanOfValues(vals),
        variance |-> IF Len(vals) > 1
                     THEN RDiv(squaresAbout(vals, meanOfValues(vals), 1), R(Len(vals) - 1))
                     ELSE R(0)]

rtmControl(rows) == rtmControlOf(finiteRtm(rows, 1))

(***************************************************************************)
(* SpecBand: the control bands of the dashboard, the capacity card and the *)
(* RTM card over every short list of points.                               *)
(***************************************************************************)
MaxBandPoints == 3

\* Points with and without a previous-year value and a YoY
BandPointKinds ==
  {[units |-> R(1), prev_year_units |-> Null, yoy_pct |-> Null],
   [units |-> R(3), prev_year_units |-> R(1), yoy_pct |-> R(200)],
   [units |-> R(2), prev_year_units |-> R(2), yoy_pct |-> R(0)]}

BandPoints(maxPoints) == UNION {[1..n -> BandPointKinds] : n \in 0..maxPoints}

\* Rows of the RTM chart: a rolling average or none
BandRowKinds == {[rtm |-> Null], [rtm |-> R(1)], [rtm |-> R(4)]}

BandRows(maxPoints) == UNION {[1..n -> BandRowKinds] : n \in 0..maxPoints}

BandCalls(maxPoints) ==
  {Pending(fn, [showControlLines |-> c, points |-> ps, showUnitsSeries |-> u,
                showPrevYearSeries |-> py]) :
     fn \in {"controlStatsLeft", "controlStatsLeftCapacity"},
     c \in BOOLEAN, ps \in BandPoints(maxPoints), u \in BOOLEAN, py \in BOOLEAN}
  \cup
  {Pending(fn, [showControlLines |-> c, points |-> ps, showYoYSeries |-> y]) :
     fn \in {"controlStatsYoY", "controlStatsYoYCapacity"},
     c \in BOOLEAN, ps \in BandPoints(maxPoints), y \in BOOLEAN}
  \cup
  {Pending("rtmControl", [chartData |-> rows]) : rows \in BandRows(maxPoints)}

ApplyControlStatsLeft ==
  Starts("controlStatsLeft")
  /\ Returns(controlStatsLeft(call.args.showControlLines, call.args.points,
                              call.args.showUnitsSeries, call.args.showPrevYearSeries))

ApplyControlStatsYoY ==
  Starts("controlStatsYoY")
  /\ Returns(controlStatsYoY(call.args.showControlLines, call.args.points,
                             call.args.showYoYSeries))

ApplyControlStatsLeftCapacity ==
  Starts("controlStatsLeftCapacity")
  /\ Returns(controlStatsLeftCapacity(call.args.showControlLines, call.args.points,
                                      call.args.showUnitsSeries, call.args.showPrevYearSeries))

ApplyControlStatsYoYCapacity ==
  Starts("controlStatsYoYCapacity")
  /\ Returns(controlStatsYoYCapacity(call.args.showControlLines, call.args.points,
                                     call.args.showYoYSeries))

ApplyRtmControl ==
  Starts("rtmControl") /\ Returns(rtmControl(call.args.chartData))

BandNext ==
  \/ ApplyControlStatsLeft
  \/ ApplyControlStatsYoY
  \/ ApplyControlStatsLeftCapacity
  \/ ApplyControlStatsYoYCapacity
  \/ ApplyRtmControl

BandInit == DashIdle /\ CardInit /\ PagesIdle /\ call \in BandCalls(MaxBandPoints)

SpecBand == BandInit /\ [][BandNext]_vars

(***************************************************************************)
(* pearsonCorr.  A JavaScript number is a binary floating-point number     *)
(* with a significand of 53 bits, and +, -, *, / and Math.sqrt each return *)
(* the representable number nearest to the exact result, a tie going to    *)
(* the even significand.  The model computes the same way with a           *)
(* significand of SignificandBits bits, so that every value is a fraction  *)
(* of small integers; a number that fits the significand is computed       *)
(* exactly, as in the program.                                             *)
(***************************************************************************)
SignificandBits == 4

RECURSIVE Pow2(_)
Pow2(k) == IF k <= 0 THEN 1 ELSE 2 * Pow2(k - 1)

\* |x| / 2^e as a fraction of integers
FlNum(x, e) == Abs(x[1]) * Pow2(-e)

FlDen(x, e) == x[2] * Pow2(e)

FlExponents == -13..15

\* The exponent e that puts |x| / 2^e in [2^(bits - 1), 2^bits)
FlExp(x) ==
  CHOOSE e \in FlExponents :
    /\ Pow2(SignificandBits - 1) * FlDen(x, e) <= FlNum(x, e)
    /\ FlNum(x, e) < Pow2(SignificandBits) * FlDen(x, e)

FlQuot(x, e) == FlNum(x, e) \div FlDen(x, e)

\* Round to nearest, a tie to the even significand
FlUp(x, e) ==
  \/ 2 * (FlNum(x, e) % FlDen(x, e)) > FlDen(x, e)
  \/ 2 * (FlNum(x, e) % FlDen(x, e)) = FlDen(x, e) /\ FlQuot(x, e) % 2 = 1

FlAt(x, e) ==
  Rat(Sign(x[1]) * (FlQuot(x, e) + (IF FlUp(x, e) THEN 1 ELSE 0)) * Pow2(e), Pow2(-e))

\* The representable number nearest to x
Fl(x) == IF x[1] = 0 \/ x[2] = 0 THEN x ELSE FlAt(x, FlExp(x))

FAdd(a, b) == Fl(RAdd(a, b))

FSub(a, b) == Fl(RSub(a, b))

FMul(a, b) == Fl(RMul(a, b))

FDiv(a, b) == Fl(RDiv(a, b))

\* x / 4^e as a fraction of integers
SqrtNum(x, e) == x[1] * Pow2(-2 * e)

SqrtDen(x, e) == x[2] * Pow2(2 * e)

SqrtExponents == -3..6

\* The exponent e that puts sqrt(x) / 2^e in [2^(bits - 1), 2^bits)
SqrtExp(x) ==
  CHOOSE e \in SqrtExponents :
    /\ Pow2(2 * (SignificandBits - 1)) * SqrtDen(x, e) <= SqrtNum(x, e)
    /\ SqrtNum(x, e) < Pow2(2 * SignificandBits) * SqrtDen(x, e)

\* The whole part of sqrt(x) / 2^e
SqrtQuot(x, e) ==
  CHOOSE q \in Pow2(SignificandBits - 1)..(Pow2(SignificandBits) - 1) :
    /\ q * q * SqrtDen(x, e) <= SqrtNum(x, e)
    /\ SqrtNum(x, e) < (q + 1) * (q + 1) * SqrtDen(x, e)

SqrtUp(x, e, q) ==
  \/ (2 * q + 1) * (2 * q + 1) * SqrtDen(x, e) < 4 * SqrtNum(x, e)
  \/ (2 * q + 1) * (2 * q + 1) * SqrtDen(x, e) = 4 * SqrtNum(x, e) /\ q % 2 = 1

SqrtAt(x, e, q) == Rat((q + (IF SqrtUp(x, e, q) THEN 1 ELSE 0)) * Pow2(e), Pow2(-e))

\* Math.sqrt of a number that is not negative
MathSqrt(x) == IF x[1] = 0 THEN x ELSE SqrtAt(x, SqrtExp(x), SqrtQuot(x, SqrtExp(x)))

\* Math.max(0, x)
MaxZero(x) == IF x[1] > 0 THEN x ELSE R(0)

\* Math.max(-1, Math.min(1, r))
clampUnit(r) == IF r[1] > r[2] THEN R(1) ELSE IF r[1] < -r[2] THEN R(-1) ELSE r

\* The loop of pearsonCorr over the pairs
RECURSIVE pearsonSums(_, _, _)
pearsonSums(pairs, i, acc) ==
  IF i > Len(pairs) THEN acc
  ELSE pearsonSums(pairs, i + 1,
         [sumX |-> FAdd(acc.sumX, pairs[i][1]),
          sumY |-> FAdd(acc.sumY, pairs[i][2]),
          sumXX |-> FAdd(acc.sumXX, FMul(pairs[i][1], pairs[i][1])),
          sumYY |-> FAdd(acc.sumYY, FMul(pairs[i][2], pairs[i][2])),
          sumXY |-> FAdd(acc.sumXY, FMul(pairs[i][1], pairs[i][2]))])

pearsonNum(n, t) == FSub(FMul(R(n), t.sumXY), FMul(t.sumX, t.sumY))

pearsonDenX(n, t) == FSub(FMul(R(n), t.sumXX), FMul(t.sumX, t.sumX))

pearsonDenY(n, t) == FSub(FMul(R(n), t.sumYY), FMul(t.sumY, t.sumY))

pearsonDen(n, t) == MathSqrt(FMul(MaxZero(pearsonDenX(n, t)), MaxZero(pearsonDenY(n, t))))

pearsonOf(num, den) ==
  IF ~NumberIsFinite(den) \/ RIsZero(den) THEN Null
  ELSE IF NumberIsFinite(FDiv(num, den)) THEN clampUnit(FDiv(num, den)) ELSE Null

pearsonTotals(pairs) ==
  pearsonSums(pairs, 1, [sumX |-> R(0), sumY |-> R(0), sumXX |-> R(0), sumYY |-> R(0),
                         sumXY |-> R(0)])

pearsonCorr(pairs) ==
  IF Len(pairs) < 2 THEN Null
  ELSE pearsonOf(pearsonNum(Len(pairs), pearsonTotals(pairs)),
                 pearsonDen(Len(pairs), pearsonTotals(pairs)))

(***************************************************************************)
(* SpecCorr: pearsonCorr over every short list of pairs.                   *)
(***************************************************************************)
MaxPairs == 3

\* 0, 1 and 2 keep every sum within the significand; 7 does not
PairValues == {0, 1, 2, 7}

PairLists(maxPairs) ==
  UNION {[1..n -> {<<R(x), R(y)>> : x \in PairValues, y \in PairValues}] : n \in 0..maxPairs}

CorrCalls(maxPairs) == {Pending("pearsonCorr", [pairs |-> ps]) : ps \in PairLists(maxPairs)}

ApplyPearsonCorr == Starts("pearsonCorr") /\ Returns(pearsonCorr(call.args.pairs))

CorrNext == ApplyPearsonCorr

CorrInit == DashIdle /\ CardInit /\ PagesIdle /\ call \in CorrCalls(MaxPairs)

SpecCorr == CorrInit /\ [][CorrNext]_vars

(***************************************************************************)
(* SpecFY: the fiscal-year label of a date, the order of the fiscal-year   *)
(* rows of a series and the label of the previous fiscal year.             *)
(***************************************************************************)
\* Dates on both sides of 1 April, in consecutive fiscal years, around the
\* turn of the century and a century apart
FYKeys ==
  {19240515, 19990201, 19990501, 20000201, 20000501, 20240215, 20240331, 20240401,
   20240515, 20250331}

MaxFYPoints == 3

\* Series sorted by date, as sortedDaily is
FYSeries(maxPoints) ==
  {[i \in 1..Cardinality(S) |-> [date |-> SortedSeq(S)[i], value |-> 1]] :
     S \in {T \in SUBSET FYKeys : Cardinality(T) \in 1..maxPoints}}

FYCalls(maxPoints) ==
  {Pending("fyLabelFromIso", [iso |-> k]) : k \in FYKeys}
  \cup {Pending("fys", [sortedDaily |-> sd]) : sd \in FYSeries(maxPoints)}
  \cup {Pending("prevFYOf", [iso |-> k]) : k \in FYKeys}

ApplyFyLabelFromIso ==
  Starts("fyLabelFromIso") /\ Returns(fyLabelFromIso(call.args.iso))

ApplyFys ==
  Starts("fys") /\ Returns(fys(fyMapsOf(call.args.sortedDaily)))

\* prevFY of the row of the fiscal year a date belongs to
ApplyPrevFYOf ==
  Starts("prevFYOf") /\ Returns(prevFYOf(fyLabelFromIso(call.args.iso)))

FYNext == ApplyFyLabelFromIso \/ ApplyFys \/ ApplyPrevFYOf

FYInit == DashIdle /\ CardInit /\ PagesIdle /\ call \in FYCalls(MaxFYPoints)

SpecFY == FYInit /\ [][FYNext]_vars

(***************************************************************************)
(* SpecDate: the date parsers are applied to texts in every notation, to   *)
(* Dates and to serial numbers, and the key arithmetic to calendar keys.   *)
(***************************************************************************)
\* Day, month and year as they are typed: "5", "05", "29", "31", "32";
\* "2", "02", "3", "12", "13"; "2024", "2023", "1899", "24", "23"
DayTexts == {<<"5">>, <<"0", "5">>, <<"2", "9">>, <<"3", "1">>, <<"3", "2">>}

MonthTexts == {<<"2">>, <<"0", "2">>, <<"3">>, <<"1", "2">>, <<"1", "3">>}

YearTexts ==
  {<<"2", "0", "2", "4">>, <<"2", "0", "2", "3">>, <<"1", "8", "9", "9">>, <<"2", "4">>, <<"2", "3">>}

Separators == {"/", "-"}

DayFirstTexts ==
  {d \o <<s>> \o m \o <<s>> \o y : d \in DayTexts, m \in MonthTexts, y \in YearTexts, s \in Separators}

MonthYearTexts == {m \o <<s>> \o y : m \in MonthTexts, y \in YearTexts, s \in Separators}

YearFirstTexts ==
  {y \o <<s>> \o m \o <<s>> \o d : d \in DayTexts, m \in MonthTexts, y \in YearTexts, s \in Separators}

\* "", " 05/03/2024 ", "05/03/2024x", "5.3.2024"
OtherTexts ==
  {<<>>,
   <<" ", "0", "5", "/", "0", "3", "/", "2", "0", "2", "4", " ">>,
   <<"0", "5", "/", "0", "3", "/", "2", "0", "2", "4", "x">>,
   <<"5", ".", "3", ".", "2", "0", "2", "4">>}

DateTexts == DayFirstTexts \cup MonthYearTexts \cup YearFirstTexts \cup OtherTexts

\* Offsets of local time from UTC in minutes: New York, London and Kolkata in
\* winter
Offsets == {-300, 0, 330}

\* The Dates of the cells: midnight of 5 March 2024 in local time, as the
\* spreadsheet reader makes them, and the same instants read elsewhere
DateCells ==
  {DateCell(DayOfIso(20240305) * 1440 - o1, o2) : o1 \in Offsets, o2 \in Offsets}

\* Serial numbers: 45356 is 5 March 2024; 20000 and 80000 are outside the band
SerialCells == {NumberCell(n) : n \in {5, 20000, 20001, 45356, 79999, 80000}}

CellParsers == {"parseInputDateRtm", "parseInputDateUTC", "parseInputDateStrings"}

\* Calendar keys the year shift is applied to: 29 February of two leap years,
\* the days around it, month ends and a day in the middle of a month
ShiftKeys ==
  {20240229, 20200229, 20240228, 20230228, 20240301, 20240131, 20231231, 20240101,
   20240305, 20250430}

\* Every call site shifts by -1; the shift by +1 and by -4 exercise the
\* clamping into and between leap years
ShiftYears == {-4, -1, 1}

DateCalls ==
  {Pending(fn, [lenient |-> e, s |-> t]) :
     fn \in {"parseInputDate", "parseISOKey"}, e \in Lenient, t \in DateTexts}
  \cup
  {Pending(fn, [lenient |-> e, s |-> StringCell(t)]) :
     fn \in CellParsers, e \in Lenient, t \in DateTexts}
  \cup
  {Pending(fn, [lenient |-> TRUE, s |-> c]) :
     fn \in CellParsers, c \in DateCells \cup SerialCells \cup {EmptyCell}}
  \cup
  {Pending("isoAddYears", [iso |-> k, deltaYears |-> dy]) : k \in ShiftKeys, dy \in ShiftYears}
  \cup
  {Pending("sameDayPrevYear", [iso |-> k]) : k \in ShiftKeys}

ApplyIsoAddYears ==
  Starts("isoAddYears") /\ Returns(isoAddYears(call.args.iso, call.args.deltaYears))

ApplySameDayPrevYear ==
  Starts("sameDayPrevYear") /\ Returns(sameDayPrevYear(call.args.iso))

ApplyParseInputDate ==
  Starts("parseInputDate") /\ Returns(parseInputDate(call.args.lenient, call.args.s))

ApplyParseISOKey ==
  Starts("parseISOKey") /\ Returns(parseISOKey(call.args.lenient, call.args.s))

ApplyParseInputDateRtm ==
  Starts("parseInputDateRtm") /\ Returns(parseInputDateRtm(call.args.lenient, call.args.s))

ApplyParseInputDateUTC ==
  Starts("parseInputDateUTC") /\ Returns(parseInputDateUTC(call.args.lenient, call.args.s))

ApplyParseInputDateStrings ==
  Starts("parseInputDateStrings")
  /\ Returns(parseInputDateStrings(call.args.lenient, call.args.s))

DateNext ==
  \/ ApplyParseInputDate
  \/ ApplyParseISOKey
  \/ ApplyParseInputDateRtm
  \/ ApplyParseInputDateUTC
  \/ ApplyParseInputDateStrings
  \/ ApplyIsoAddYears
  \/ ApplySameDayPrevYear

DateInit == DashIdle /\ CardInit /\ PagesIdle /\ call \in DateCalls

SpecDate == DateInit /\ [][DateNext]_vars

(***************************************************************************)
(* SpecSheet: parseSheet over every sheet of a header row and at most      *)
(* MaxSheetRows rows.                                                      *)
(***************************************************************************)
MaxSheetRows == 2

\* The header rows: "Date", "A"; "Date", "A", "B"; "Date", nothing, "A" (a
\* column without a name); "Date", "A", "A"
SheetHeaders ==
  LET date == StringCell(<<"D", "a", "t", "e">>)
      a == StringCell(<<"A">>)
      b == StringCell(<<"B">>)
  IN {<<date, a>>, <<date, a, b>>, <<date, EmptyCell, a>>, <<date, a, a>>}

\* The first cells: the Date of 5 March 2024, "01/03/2024", "x" and nothing
SheetDateCells ==
  {DateCell(DayOfIso(20240305) * 1440 - 330, 330),
   StringCell(<<"0", "1", "/", "0", "3", "/", "2", "0", "2", "4">>),
   StringCell(<<"x">>),
   EmptyCell}

\* The other cells: 1, "7", " ", "x" and nothing
SheetValueCells ==
  {NumberCell(1), StringCell(<<"7">>), StringCell(<<" ">>), StringCell(<<"x">>), EmptyCell}

SheetRows ==
  {<<d, v>> : d \in SheetDateCells, v \in SheetValueCells}
  \cup {<<d, v, w>> : d \in SheetDateCells, v \in SheetValueCells, w \in SheetValueCells}

Sheets(maxRows) ==
  {<<h>> \o rows : h \in SheetHeaders, rows \in UNION {[1..n -> SheetRows] : n \in 0..maxRows}}

SheetCalls(maxRows) ==
  {Pending("parseSheet", [lenient |-> TRUE, aoa |-> aoa]) : aoa \in Sheets(maxRows)}

ApplyParseSheet ==
  Starts("parseSheet") /\ Returns(parseSheet(call.args.lenient, call.args.aoa))

SheetNext == ApplyParseSheet

SheetInit == DashIdle /\ CardInit /\ PagesIdle /\ call \in SheetCalls(MaxSheetRows)

SpecSheet == SheetInit /\ [][SheetNext]_vars

(***************************************************************************)
(* LatestNews.tsx.  An item is [id, publishedAtISO, hay]: hay is the text  *)
(* isRelevant searches, `${title} ${snippet} ${source}`.  The published    *)
(* times of one response have one notation (NewsAPI's, or toISOString's),  *)
(* so their order as strings is the order of the integers that stand for   *)
(* them.                                                                   *)
(***************************************************************************)
CACHE_TTL_MS == 3600000

MaxItems == 100

POWER_TERMS ==
  {<<"p", "o", "w", "e", "r">>,
   <<"e", "l", "e", "c", "t", "r", "i", "c", "i", "t", "y">>,
   <<"g", "r", "i", "d">>,
   <<"d", "e", "m", "a", "n", "d">>,
   <<"s", "u", "p", "p", "l", "y">>,
   <<"p", "e", "a", "k", " ", "d", "e", "m", "a", "n", "d">>,
   <<"r", "e", "n", "e", "w", "a", "b", "l", "e">>,
   <<"s", "o", "l", "a", "r">>,
   <<"w", "i", "n", "d">>,
   <<"c", "o", "a", "l">>,
   <<"p", "l", "f">>,
   <<"t", "r", "a", "n", "s", "m", "i", "s", "s", "i", "o", "n">>,
   <<"d", "i", "s", "c", "o", "m">>,
   <<"t", "a", "r", "i", "f", "f">>,
   <<"e", "n", "e", "r", "g", "y">>}

\* The message of the outer catch: "Unable to load news"
NewsError == <<"U", "n", "a", "b", "l", "e", " ", "t", "o", " ", "l", "o", "a", "d", " ", "n", "e", "w", "s">>

\* isRelevant
isRelevant(item) ==
  LET hay == toLowerCase(item.hay)
      mentionsIndia == Includes(hay, <<"i", "n", "d", "i", "a">>)
                         \/ Includes(hay, <<"i", "n", "d", "i", "a", "n">>)
      mentionsPower == \E t \in POWER_TERMS : Includes(hay, t)
  IN mentionsIndia /\ mentionsPower

\* relevant.sort((a, b) => (a.publishedAtISO < b.publishedAtISO ? 1 : -1)):
\* the comparator never returns 0, and the order the sort leaves items of
\* one published time in is the engine's; tiesKept says whether it is theirs
sortNewestFirst(list, tiesKept) ==
  LET n == Len(list)
      before(j, i) ==
        \/ list[j].publishedAtISO > list[i].publishedAtISO
        \/ /\ list[j].publishedAtISO = list[i].publishedAtISO
           /\ IF tiesKept THEN j < i ELSE j > i
      place == [i \in 1..n |-> Cardinality({j \in 1..n : before(j, i)}) + 1]
  IN [r \in 1..n |-> list[CHOOSE i \in 1..n : place[i] = r]]

\* limited: the relevant items, newest first, at most 100
limitedOf(fetched, tiesKept) ==
  LET relevant == sortNewestFirst(SelectSeq(fetched, isRelevant), tiesKept)
  IN SubSeq(relevant, 1, Min2(MaxItems, Len(relevant)))

\* The texts of the items
HayIndiaCoal == <<"I", "n", "d", "i", "a", " ", "c", "o", "a", "l", " ", "o", "u", "t", "p", "u", "t", " ", "r", "i", "s", "e", "s">>

HayCoal == <<"C", "o", "a", "l", " ", "p", "r", "i", "c", "e", "s">>

HayIndianGrid == <<"I", "n", "d", "i", "a", "n", " ", "g", "r", "i", "d">>

HayIndiaCricket == <<"i", "n", "d", "i", "a", " ", "c", "r", "i", "c", "k", "e", "t">>

\* The responses of the fetcher src: no item; four items that are not in
\* order, two of them of one time and two of them not relevant; and 101
\* relevant items, oldest first
NewsListsOf(src) ==
  {<<>>,
   <<[id |-> <<src, 0>>, publishedAtISO |-> 2, hay |-> HayIndiaCoal],
     [id |-> <<src, 1>>, publishedAtISO |-> 5, hay |-> HayCoal],
     [id |-> <<src, 2>>, publishedAtISO |-> 3, hay |-> HayIndianGrid],
     [id |-> <<src, 3>>, publishedAtISO |-> 3, hay |-> HayIndiaCoal],
     [id |-> <<src, 4>>, publishedAtISO |-> 4, hay |-> HayIndiaCricket]>>,
   [i \in 1..(MaxItems + 1) |->
      [id |-> <<src, i - 1>>, publishedAtISO |-> i, hay |-> HayIndianGrid]]}

NewsLists == NewsListsOf("newsapi") \cup NewsListsOf("rss")

\* limitedOf for the responses, computed once
limitedTab == [fetched \in NewsLists |-> [tiesKept \in BOOLEAN |-> limitedOf(fetched, tiesKept)]]

\* The test of a cache that is still taken as fresh at the age of one hour
cacheIsFreshAtOneHour(cache, t) == cache # Null /\ t - cache.ts <= CACHE_TTL_MS

\* cache && Date.now() - cache.ts < CACHE_TTL_MS
cacheIsFresh(cache, t) == cache # Null /\ t - cache.ts < CACHE_TTL_MS

\* loadNews(force) up to its first await.  A call is [force, stage, live]:
\* stage is "cached" for a call that returned the cache, "newsapi" and "rss"
\* while that fetch is awaited, "done" and "failed" at the end; live says
\* that the component that made the call is still mounted.
loadNews(force) ==
  /\ err' = Null
  /\ IF ~force /\ cacheIsFresh(newsCache, now)
       THEN /\ items' = newsCache.items
            /\ newsLoading' = FALSE
            /\ newsCalls' = Append(newsCalls, [force |-> force, stage |-> "cached", live |-> TRUE])
     ELSE /\ newsLoading' = TRUE
          /\ items' = items
          /\ newsCalls' = Append(newsCalls, [force |-> force, stage |-> "newsapi", live |-> TRUE])
  /\ UNCHANGED <<newsCache, now>>

\* The tab is opened: the effect calls loadNews(false)
NewsMount(maxCalls) ==
  /\ ~newsMounted
  /\ Len(newsCalls) < maxCalls
  /\ newsMounted' = TRUE
  /\ loadNews(FALSE)
  /\ UNCHANGED <<dashVars, cardVars, call, storeVars, ratedVars>>

\* The tab is left: the state of the component is gone (the next mount
\* starts from the initial values), and the calls it made can no longer set
\* it
NewsUnmount ==
  /\ newsMounted
  /\ newsMounted' = FALSE
  /\ items' = <<>>
  /\ newsLoading' = FALSE
  /\ err' = Null
  /\ newsCalls' = [i \in DOMAIN newsCalls |-> [newsCalls[i] EXCEPT !.live = FALSE]]
  /\ UNCHANGED <<newsCache, now, dashVars, cardVars, call, storeVars, ratedVars>>

\* The Refresh button: loadNews(true)
Refresh(maxCalls) ==
  /\ newsMounted
  /\ Len(newsCalls) < maxCalls
  /\ loadNews(TRUE)
  /\ UNCHANGED <<newsMounted, dashVars, cardVars, call, storeVars, ratedVars>>

\* The end of call i with the items fetched: setItems, saveCache, and
\* setLoading(false) in the finally block
NewsFetched(i, fetched, tiesKept) ==
  LET limited == limitedTab[fetched][tiesKept]
  IN /\ newsCalls' = [newsCalls EXCEPT ![i].stage = "done"]
     /\ newsCache' = [ts |-> now, items |-> limited]
     /\ IF newsCalls[i].live
          THEN items' = limited /\ newsLoading' = FALSE
        ELSE UNCHANGED <<items, newsLoading>>
     /\ UNCHANGED <<newsMounted, err, now, dashVars, cardVars, call, storeVars, ratedVars>>

\* fetchViaNewsAPI resolves
NewsApiResolves(Fetched) ==
  \E i \in DOMAIN newsCalls, fetched \in Fetched, tiesKept \in BOOLEAN :
    /\ newsCalls[i].stage = "newsapi"
    /\ NewsFetched(i, fetched, tiesKept)

\* fetchViaNewsAPI throws: the call goes on to fetchViaGoogleNewsRSS
NewsApiFails ==
  \E i \in DOMAIN newsCalls :
    /\ newsCalls[i].stage = "newsapi"
    /\ newsCalls' = [newsCalls EXCEPT ![i].stage = "rss"]
    /\ UNCHANGED <<newsMounted, items, newsLoading, err, newsCache, now, dashVars, cardVars,
                   call, storeVars, ratedVars>>

\* fetchViaGoogleNewsRSS resolves
RssResolves(Fetched) ==
  \E i \in DOMAIN newsCalls, fetched \in Fetched, tiesKept \in BOOLEAN :
    /\ newsCalls[i].stage = "rss"
    /\ NewsFetched(i, fetched, tiesKept)

\* fetchViaGoogleNewsRSS throws: the outer catch and the finally block
RssFails ==
  \E i \in DOMAIN newsCalls :
    /\ newsCalls[i].stage = "rss"
    /\ newsCalls' = [newsCalls EXCEPT ![i].stage = "failed"]
    /\ IF newsCalls[i].live
         THEN err' = NewsError /\ newsLoading' = FALSE
       ELSE UNCHANGED <<err, newsLoading>>
    /\ UNCHANGED <<newsMounted, items, newsCache, now, dashVars, cardVars, call, storeVars,
                   ratedVars>>

\* Time passes: Date.now() moves on to t
Tick(Times) ==
  \E t \in Times :
    /\ t > now
    /\ now' = t
    /\ UNCHANGED <<newsMounted, items, newsLoading, err, newsCache, newsCalls, dashVars,
                   cardVars, call, storeVars, ratedVars>>

(***************************************************************************)
(* SpecNews: the Latest News tab is opened and left, Refresh is pressed,   *)
(* the fetches resolve with one of the NewsLists or fail, and time passes. *)
(***************************************************************************)
MaxNewsCalls == 3

\* The times of the clock: the start, and the ages of one hour less a
\* millisecond, one hour and more of a cache stored at 0 or at 1
NewsTimes == {0, 1, CACHE_TTL_MS - 1, CACHE_TTL_MS, CACHE_TTL_MS + 1}

NewsNext ==
  \/ NewsMount(MaxNewsCalls)
  \/ NewsUnmount
  \/ Refresh(MaxNewsCalls)
  \/ NewsApiResolves(NewsListsOf("newsapi"))
  \/ NewsApiFails
  \/ RssResolves(NewsListsOf("rss"))
  \/ RssFails
  \/ Tick(NewsTimes)

NewsInit == DashIdle /\ CardInit /\ PagesIdle /\ CallIdle

SpecNews == NewsInit /\ [][NewsNext]_vars

(***************************************************************************)
(* The Rated Capacity tab is opened and left; while it is open the user    *)
(* edits installed values and picks months, and the fetches of the         *)
(* capacity file that a mount starts settle in any order, each with one of *)
(* the CapacityTexts or with a failure.                                    *)
(***************************************************************************)
MaxMounts == 2

\* The files: "Month,Coal,Solar" with rows for 01/2024 and 03/2024; "Date,
\* Coal" with a row 15/03/24 and a row without a month; a file without a
\* month column; a file of a header alone; "Month,Coal" with the rows
\* 13/2023, 02/2023 and 02/2023 again, not in order
CapacityTexts ==
  {<< <<"M", "o", "n", "t", "h", ",", "C", "o", "a", "l", ",", "S", "o", "l", "a", "r">>,
      <<"0", "1", "/", "2", "0", "2", "4", ",", "1", ",", "2">>,
      <<"0", "3", "/", "2", "0", "2", "4", ",", "3", ",", "0">> >>,
   << <<"D", "a", "t", "e", ",", "C", "o", "a", "l">>,
      <<"1", "5", "/", "0", "3", "/", "2", "4", ",", "2">>,
      <<"x", ",", "9">> >>,
   << <<"C", "o", "a", "l", ",", "S", "o", "l", "a", "r">>,
      <<"1", ",", "2">> >>,
   << <<"M", "o", "n", "t", "h", ",", "C", "o", "a", "l">> >>,
   << <<"M", "o", "n", "t", "h", ",", "C", "o", "a", "l">>,
      <<"1", "3", "/", "2", "0", "2", "3", ",", "4">>,
      <<"0", "2", "/", "2", "0", "2", "3", ",", "5">>,
      <<"0", "2", "/", "2", "0", "2", "3", ",", "6">> >>}

\* What a fetch of the capacity file resolves to: a text, or Null for a failure
CapacityResponses == CapacityTexts \cup {Null}

\* The sources whose input the user edits, and the texts typed: "5", "0", ""
EditedSources == {"Coal", "Solar"}

InstalledTexts == {<<"5">>, <<"0">>, <<>>}

\* The values of a month input: 2023-02, 2023-12, 2024-01, 2024-02, 2024-03,
\* 2024-04 and the empty value
MonthInputValues ==
  {<<"2", "0", "2", "3", "-", "0", "2">>, <<"2", "0", "2", "3", "-", "1", "2">>,
   <<"2", "0", "2", "4", "-", "0", "1">>, <<"2", "0", "2", "4", "-", "0", "2">>,
   <<"2", "0", "2", "4", "-", "0", "3">>, <<"2", "0", "2", "4", "-", "0", "4">>,
   <<>>}

\* useState installed: the stored object, read with safeNum
installedFromStore(store) ==
  IF store = Null THEN ZeroBySource
  ELSE [s \in SourceSet |-> IF NumberIsFinite(store[s]) THEN store[s] ELSE R(0)]

hasNonZeroLocal(inst) == \E s \in SourceSet : ~RIsZero(inst[s])

\* The tab is opened: the states are initialised, the installed values are
\* stored, and the effects start loadHistory and, when no installed value is
\* non-zero, the load of the installed values
RatedMount ==
  /\ ~ratedMounted
  /\ Len(historyLoads) < MaxMounts
  /\ ratedMounted' = TRUE
  /\ installed' = installedFromStore(installedStore)
  /\ installedStore' = installed'
  /\ installedLoads' = IF hasNonZeroLocal(installed') THEN installedLoads
                       ELSE Append(installedLoads,
                                   [cancelled |-> FALSE, settled |-> FALSE,
                                    installed |-> installed'])
  /\ capacityCsvMissing' = FALSE
  /\ history' = <<>>
  /\ historyLoads' = Append(historyLoads, NewLoad)
  /\ startMonth' = 0
  /\ endMonth' = 0
  /\ UNCHANGED <<dashVars, cardVars, call, storeVars, newsVars>>

\* The tab is left: the cleanups of the effects set cancelled
RatedUnmount ==
  /\ ratedMounted
  /\ ratedMounted' = FALSE
  /\ installedLoads' = [i \in DOMAIN installedLoads |->
                          [installedLoads[i] EXCEPT !.cancelled = TRUE]]
  /\ historyLoads' = [i \in DOMAIN historyLoads |->
                        [historyLoads[i] EXCEPT !.cancelled = TRUE]]
  /\ UNCHANGED <<installed, installedStore, capacityCsvMissing, history, startMonth,
                 endMonth, dashVars, cardVars, call, storeVars, newsVars>>

\* onChange of the input of a source
SetInstalled(S, T) ==
  /\ ratedMounted
  /\ \E s \in S, t \in T :
       /\ installed' = [installed EXCEPT ![s] = safeNum(t)]
       /\ installedStore' = installed'
  /\ UNCHANGED <<ratedMounted, installedLoads, capacityCsvMissing, history, historyLoads,
                 startMonth, endMonth, dashVars, cardVars, call, storeVars, newsVars>>

\* The rest of load i of the installed values after its fetch: next is the
\* value for setInstalled, Null where the load throws
InstalledLoadRuns(i, next) ==
  LET load == installedLoads[i]
  IN /\ ~load.settled
     /\ installedLoads' = [installedLoads EXCEPT ![i].settled = TRUE]
     /\ IF load.cancelled
          THEN UNCHANGED <<installed, installedStore, capacityCsvMissing>>
        ELSE IF next # Null
          THEN /\ installed' = next
               /\ installedStore' = next
               /\ capacityCsvMissing' = FALSE
        ELSE /\ capacityCsvMissing' = TRUE
             /\ UNCHANGED <<installed, installedStore>>
     /\ UNCHANGED <<ratedMounted, history, historyLoads, startMonth, endMonth,
                    dashVars, cardVars, call, storeVars, newsVars>>

\* The fetch of loadInstalledFromLatestCapacityCSV resolves or fails, and
\* the load runs to its end
InstalledLoadSettles ==
  \E i \in DOMAIN installedLoads, text \in CapacityResponses :
    InstalledLoadRuns(i, IF text = Null THEN Null
                         ELSE installedFromLatest(text, installedLoads[i].installed))

\* The fetch of loadCapacitySingleRow resolves or fails, and the load runs
\* to its end
SingleRowLoadSettles ==
  \E i \in DOMAIN installedLoads, text \in CapacityResponses :
    InstalledLoadRuns(i, IF text = Null THEN Null
                         ELSE installedFromFirstRow(text, installedLoads[i].installed))

\* loadHistory after its fetch, and the effects that follow setHistory
HistoryLoadSettles ==
  \E i \in DOMAIN historyLoads, text \in CapacityResponses :
    LET load == historyLoads[i]
        parsed == IF text = Null THEN Null ELSE monthRows(text)
        hist == IF parsed = Null THEN <<>> ELSE parsed
        months == monthsAfterOptions(hist, startMonth, endMonth)
    IN /\ ~load.settled
       /\ historyLoads' = [historyLoads EXCEPT ![i].settled = TRUE]
       /\ IF load.cancelled THEN UNCHANGED <<history, startMonth, endMonth>>
          ELSE /\ history' = hist
               /\ endMonth' = months.end
               /\ startMonth' = startAfterOrder(months.start, months.end)
       /\ UNCHANGED <<ratedMounted, installed, installedStore, installedLoads,
                      capacityCsvMissing, dashVars, cardVars, call, storeVars, newsVars>>

\* onChange of the Start month input, and the effect on [startMonth, endMonth]
SetStartMonth(V) ==
  /\ ratedMounted
  /\ \E v \in V :
       LET mk == inputValueToMonthKey(v)
           clamped == IF mk # 0 THEN clampMonthKeyToOptions(mk, monthOptions(history)) ELSE 0
       IN startMonth' = IF clamped = 0 THEN startMonth ELSE startAfterOrder(clamped, endMonth)
  /\ UNCHANGED <<ratedMounted, installed, installedStore, installedLoads, capacityCsvMissing,
                 history, historyLoads, endMonth, dashVars, cardVars, call, storeVars,
                 newsVars>>

\* onChange of the End month input, and the effect on [startMonth, endMonth]
SetEndMonth(V) ==
  /\ ratedMounted
  /\ \E v \in V :
       LET mk == inputValueToMonthKey(v)
           clamped == IF mk # 0 THEN clampMonthKeyToOptions(mk, monthOptions(history)) ELSE 0
       IN /\ endMonth' = IF clamped = 0 THEN endMonth ELSE clamped
          /\ startMonth' = startAfterOrder(startMonth, endMonth')
  /\ UNCHANGED <<ratedMounted, installed, installedStore, installedLoads, capacityCsvMissing,
                 history, historyLoads, dashVars, cardVars, call, storeVars, newsVars>>

\* RatedCapacity.tsx: an option of the Start select that is not disabled is
\* picked
SelectStartMonth ==
  /\ ratedMounted
  /\ \E i \in 1..Len(monthOptions(history)) :
       LET m == monthOptions(history)[i]
       IN /\ ~(endMonth # 0 /\ compareMonthKey(m, endMonth) > 0)
          /\ startMonth' = startAfterOrder(m, endMonth)
  /\ UNCHANGED <<ratedMounted, installed, installedStore, installedLoads, capacityCsvMissing,
                 history, historyLoads, endMonth, dashVars, cardVars, call, storeVars,
                 newsVars>>

\* RatedCapacity.tsx: an option of the End select that is not disabled is picked
SelectEndMonth ==
  /\ ratedMounted
  /\ \E i \in 1..Len(monthOptions(history)) :
       LET m == monthOptions(history)[i]
       IN /\ ~(startMonth # 0 /\ compareMonthKey(m, startMonth) < 0)
          /\ endMonth' = m
          /\ startMonth' = startAfterOrder(startMonth, m)
  /\ UNCHANGED <<ratedMounted, installed, installedStore, installedLoads, capacityCsvMissing,
                 history, historyLoads, dashVars, cardVars, call, storeVars, newsVars>>

\* SpecInstalled: the installed values.  The fetch of loadHistory that a
\* mount starts stays pending.
InstalledNext ==
  \/ RatedMount
  \/ RatedUnmount
  \/ SetInstalled(EditedSources, InstalledTexts)
  \/ InstalledLoadSettles
  \/ SingleRowLoadSettles

InstalledInit == DashIdle /\ CardInit /\ PagesIdle /\ CallIdle

SpecInstalled == InstalledInit /\ [][InstalledNext]_vars

\* SpecMonths: the history and the two months.  The fetch of the installed
\* values that a mount starts stays pending.
MonthsNext ==
  \/ RatedMount
  \/ RatedUnmount
  \/ HistoryLoadSettles
  \/ SelectStartMonth
  \/ SelectEndMonth
  \/ SetStartMonth(MonthInputValues)
  \/ SetEndMonth(MonthInputValues)

MonthsInit == DashIdle /\ CardInit /\ PagesIdle /\ CallIdle

SpecMonths == MonthsInit /\ [][MonthsNext]_vars

(***************************************************************************)
(* SpecStore: the coal tab of the dashboard is left and opened again, its  *)
(* default CSV arrives or fails, and the series is edited through the      *)
(* texts of the inputs, by file import, by the sample, by Remove and by    *)
(* Clear.                                                                  *)
(***************************************************************************)
MaxLoads == 2

\* What the fetch of the default CSV resolves to: a failure; "date,coal /
\* 01/03/2024,5 / 2024-02-30,4"; "date,coal / 01/03/2024,"
\* (no value); "date,coal / x,1" (no date)
DefaultResponses ==
  {Null,
   <<<<"d", "a", "t", "e", ",", "c", "o", "a", "l">>, <<"0", "1", "/", "0", "3", "/", "2", "0", "2", "4", ",", "5">>, <<"2", "0", "2", "4", "-", "0", "2", "-", "3", "0", ",", "4">>>>,
   <<<<"d", "a", "t", "e", ",", "c", "o", "a", "l">>, <<"0", "1", "/", "0", "3", "/", "2", "0", "2", "4", ",">>>>,
   <<<<"d", "a", "t", "e", ",", "c", "o", "a", "l">>, <<"x", ",", "1">>>>}

\* The files the user imports: "date,coal / 04/03/2024,9" and "x,1"
ImportFiles ==
  {<<<<"d", "a", "t", "e", ",", "c", "o", "a", "l">>, <<"0", "4", "/", "0", "3", "/", "2", "0", "2", "4", ",", "9">>>>,
   <<<<"x", ",", "1">>>>}

\* The texts of the Date input: "04/03/2024" and "x"
StoreDateInputs == {<<"0", "4", "/", "0", "3", "/", "2", "0", "2", "4">>, <<"x">>}

\* The texts of the Value input: "8", "" and "x"
StoreValueInputs == {<<"8">>, <<>>, <<"x">>}

\* The dates that only the import and the Date input above give
UserDates == {20240304}

StoreNext ==
  \/ DashMount(MaxLoads)
  \/ DashUnmount
  \/ DefaultLoadSettles(DefaultResponses, CoalKey)
  \/ UpsertTexts(StoreDateInputs, StoreValueInputs)
  \/ ImportFile(ImportFiles, CoalKey)
  \/ LoadSample(CoalKey)
  \/ RemoveDate
  \/ ClearAll

StoreInit == DashIdle /\ CardInit /\ PagesIdle /\ CallIdle

SpecStore == StoreInit /\ [][StoreNext]_vars

(***************************************************************************)
(* Properties.  The expected values are computed from the series as a set  *)
(* of dated values, never through the operators above.                     *)
(***************************************************************************)
\* (c - b) / b * 100 for finite c and b # 0; no value without a baseline
ExactGrowth(c, b) ==
  IF b = Null \/ b[1] = 0 THEN Null
  ELSE Rat(100 * (c[1] * b[2] - b[1] * c[2]), c[2] * b[1])

\* The dates of dm on the n calendar days that end on D
WindowKeys(dm, D, n) ==
  {k \in DOMAIN dm : DayOfIso(D) - DayOfIso(k) \in 0..(n - 1)}

\* The dates of dm from a to b inclusive
RangeKeys(dm, a, b) == {k \in DOMAIN dm : a <= k /\ k <= b}

TotalOver(dm, S) == IF S = {} THEN Null ELSE R(SumOver(dm, S))

MeanOver(dm, S) == IF S = {} THEN Null ELSE Rat(SumOver(dm, S), Cardinality(S))

\* The aggregate of the dates S under the combination mode
AggOver(dm, S) == IF calcMode = "sum" THEN TotalOver(dm, S) ELSE MeanOver(dm, S)

MonthDates(dm, m) == {k \in DOMAIN dm : k \div 100 = m}

MaxDayOf(dm, m) == SetMax({k % 100 : k \in MonthDates(dm, m)})

\* The month before m and the same month a year before m, as YYYYMM
PriorMonth(m) == IF m % 100 = 1 THEN m - 89 ELSE m - 1

PriorYearMonth(m) == m - 100

\* The sum of month p restricted to the days 1 .. maxDay(m)
ComparableBase(dm, m, p) ==
  TotalOver(dm, {k \in MonthDates(dm, p) : k % 100 <= MaxDayOf(dm, m)})

MonthGrowthIsComparable(point, m) ==
  /\ point.mom_pct = ExactGrowth(TotalOver(dataMap, MonthDates(dataMap, m)),
                                 ComparableBase(dataMap, m, PriorMonth(m)))
  /\ point.yoy_pct = ExactGrowth(TotalOver(dataMap, MonthDates(dataMap, m)),
                                 ComparableBase(dataMap, m, PriorYearMonth(m)))

\* C1: in sum mode every monthly growth figure, in the monthly aggregate and
\* in the 'monthly' chart view, compares month M with the prior month (and
\* with the same month a year earlier) restricted to the days 1..maxDay(M).
C1_MonthlyGrowthComparable ==
  calcMode = "sum" =>
    /\ \A i \in DOMAIN monthlyAgg :
         MonthGrowthIsComparable(monthlyAgg[i], monthlyAgg[i].month)
    /\ (DOMAIN dataMap # {} /\ aggFreq = "monthly") =>
         \A i \in DOMAIN dailyForChart :
           MonthGrowthIsComparable(dailyForChart[i], dailyForChart[i].label)

\* C2: every growthPct variant yields no value when the previous value is 0
\* or missing, otherwise exactly (current - previous) / previous * 100, and
\* never Infinity or NaN.
C2_GrowthPct ==
  (call.done /\ call.fn \in GrowthFns) =>
    /\ call.out = IF call.args.prev = Null \/ RIsZero(call.args.prev) THEN Null
                  ELSE ExactGrowth(call.args.curr, call.args.prev)
    /\ call.out = Null \/ NumberIsFinite(call.out)

\* A variant was applied to a non-zero current value and a zero baseline
C2_Witness ==
  /\ call.done /\ call.fn = "growthPctCapacity"
  /\ call.args.prev = R(0) /\ call.args.curr = R(MaxValue)
  /\ call.out = Null

IsCalendarAverage == call.fn = "rollingAvgRtm" \/ (call.fn = "rollingCurr" /\ ~call.args.isSum)

\* C3: the calendar-day rolling average at anchor D over N days is the sum
\* of the values present on D-(N-1)..D divided by the number of those dates
\* that have a value (for a window that holds at least one value).
C3_RollingAverage ==
  (call.done /\ IsCalendarAverage) =>
    LET W == WindowKeys(call.args.series, call.args.anchor, call.args.n)
    IN W # {} => call.out = MeanOver(call.args.series, W)

\* A 7-day window with fewer than 7 values and a value outside the window
C3_Witness ==
  /\ call.done /\ call.fn = "rollingCurr" /\ ~call.args.isSum /\ call.args.n = 7
  /\ LET W == WindowKeys(call.args.series, call.args.anchor, 7)
     IN /\ Cardinality(W) = 2
        /\ DOMAIN call.args.series # W
        /\ call.out # R(0)

IsRollingView == call.fn \in {"rollingAvgRtm", "rollingCurr"}

\* C4: for a rolling window without a populated day the current-window value
\* is 0 under sum semantics and null under average semantics, in every
\* rolling view of the dashboard and of the RTM card.
C4_EmptyWindowValue ==
  (call.done /\ IsRollingView) =>
    (WindowKeys(call.args.series, call.args.anchor, call.args.n) = {} =>
       call.out = IF IsCalendarAverage THEN Null ELSE R(0))

\* The fiscal year (by its end year) of a date, its first and last day
FiscalYearOf(k) == IF (k \div 100) % 100 >= 4 THEN k \div 10000 + 1 ELSE k \div 10000

FiscalStart(endYear) == (endYear - 1) * 10000 + 401

FiscalEnd(endYear) == endYear * 10000 + 331

FiscalDates(dm, endYear) == {k \in DOMAIN dm : FiscalYearOf(k) = endYear}

\* The same month and day one year earlier; 28 February for a 29 February
\* whose earlier year has none
SameDayPriorYear(k) ==
  IF k % 10000 = 229 /\ ~IsLeap(k \div 10000 - 1) THEN k - 10000 - 1 ELSE k - 10000

\* The day as many days after 1 April of the prior fiscal year as k is after
\* 1 April of its own
SameElapsedPriorYear(k) ==
  IsoOfDay(DayOfIso(FiscalStart(FiscalYearOf(k) - 1))
           + (DayOfIso(k) - DayOfIso(FiscalStart(FiscalYearOf(k)))))

\* The incomplete fiscal years whose prior fiscal year has data
IncompleteYears ==
  {y \in {FiscalYearOf(k) : k \in DOMAIN dataMap} :
     /\ SetMax(FiscalDates(dataMap, y)) < FiscalEnd(y)
     /\ FiscalDates(dataMap, y - 1) # {}}

FYRowOf(y) == CHOOSE r \in {yearlyFYRows[i] : i \in DOMAIN yearlyFYRows} : r.fy = y % 100

\* The growth of fiscal year y to date against the prior year up to priorEnd
ToDateGrowth(y, priorEnd) ==
  LET cur == AggOver(dataMap, RangeKeys(dataMap, FiscalStart(y), SetMax(FiscalDates(dataMap, y))))
      pri == AggOver(dataMap, RangeKeys(dataMap, FiscalStart(y - 1), priorEnd))
  IN IF pri = Null THEN Null ELSE ExactGrowth(cur, pri)

\* C5 (as stated): an incomplete fiscal year is compared with the prior
\* fiscal year from its 1 April over the same number of elapsed days.
C5_SameElapsedDays ==
  \A y \in IncompleteYears :
    FYRowOf(y).yoy_pct = ToDateGrowth(y, SameElapsedPriorYear(SetMax(FiscalDates(dataMap, y))))

\* C5 (amended): an incomplete fiscal year is compared with the prior fiscal
\* year from its 1 April up to the same month and day one year before the
\* latest date (28 February for a 29 February); the prior year's full total
\* is not the baseline.
C5_SameDayPriorYear ==
  \A y \in IncompleteYears :
    FYRowOf(y).yoy_pct = ToDateGrowth(y, SameDayPriorYear(SetMax(FiscalDates(dataMap, y))))

\* FY24 up to 5 March 2024 against FY23 with its only value on 6 March 2023:
\* the same day a year earlier excludes it, the same elapsed day count and
\* the full prior year include it
C5_Witness ==
  /\ 2024 \in IncompleteYears
  /\ SetMax(FiscalDates(dataMap, 2024)) = 20240305
  /\ FiscalDates(dataMap, 2023) = {20230306}
  /\ dataMap[20230306] # 0
  /\ FYRowOf(2024).yoy_pct = Null

\* 1 January 2024 was a Monday
IsMonday(k) == (DayOfIso(k) - DayOfIso(20240101)) % 7 = 0

WeekDates(dm, wk) == {k \in DOMAIN dm : DayOfIso(k) - DayOfIso(wk) \in 0..6}

WeekGrowth(wk, daysBack) ==
  LET base == AggOver(dataMap, WeekDates(dataMap, IsoOfDay(DayOfIso(wk) - daysBack)))
  IN IF base = Null THEN Null
     ELSE ExactGrowth(AggOver(dataMap, WeekDates(dataMap, wk)), base)

\* C6: every daily point is grouped under the Monday on or before its date;
\* a week's week-over-week growth is against the week 7 days earlier and its
\* year-over-year growth against the week 364 days earlier, each null when
\* that earlier week has no data.
C6_WeeklyGrowth ==
  /\ \A k \in DOMAIN dataMap :
       /\ IsMonday(startOfWeekISO(k))
       /\ DayOfIso(k) - DayOfIso(startOfWeekISO(k)) \in 0..6
       /\ \E i \in DOMAIN weeklyRows : weeklyRows[i].weekStart = startOfWeekISO(k)
  /\ \A i \in DOMAIN weeklyRows :
       LET row == weeklyRows[i]
       IN /\ row.value = AggOver(dataMap, WeekDates(dataMap, row.weekStart))
          /\ row.wow_pct = WeekGrowth(row.weekStart, 7)
          /\ row.yoy_pct = WeekGrowth(row.weekStart, 364)

\* The week of Tuesday 5 March 2024 with data in the week before and in the
\* week 364 days before
C6_Witness ==
  /\ DOMAIN dataMap = {20230306, 20240228, 20240305}
  /\ \A k \in DOMAIN dataMap : dataMap[k] # 0
  /\ \E i \in DOMAIN weeklyRows :
       /\ weeklyRows[i].weekStart = 20240304
       /\ weeklyRows[i].wow_pct # Null
       /\ weeklyRows[i].yoy_pct # Null

\* The min(n, k) latest dates of the series that are <= anchor: those with
\* fewer than n later dates up to the anchor
LatestDates(series, anchor, n) ==
  LET K == {d \in DOMAIN series : d <= anchor}
  IN {d \in K : Cardinality({e \in K : e > d}) < n}

\* C7: rollingAvgStocks is the mean over exactly the min(n, k) latest dates
\* of the series that are <= anchor, and null when there is none.
C7_RollingAvgStocks ==
  (call.done /\ call.fn = "rollingAvgStocks") =>
    call.out = MeanOver(call.args.series,
                        LatestDates(call.args.series, call.args.anchor, call.args.n))

\* More dates up to the anchor than the window takes, and a date after the
\* anchor: only the latest date up to the anchor counts
C7_Witness ==
  /\ call.done /\ call.fn = "rollingAvgStocks" /\ call.args.n = 1
  /\ call.args.anchor = 20240304
  /\ DOMAIN call.args.series = {20240120, 20240228, 20240305}
  /\ call.args.series[20240120] # call.args.series[20240228]
  /\ call.args.series[20240305] # call.args.series[20240228]
  /\ call.out = R(call.args.series[20240228])

\* The number of days from a to b inclusive (0 when a is after b)
DaysInclusive(a, b) == IF a > b THEN 0 ELSE DayOfIso(b) - DayOfIso(a) + 1

\* Row i of the aligned chart is the row of the i-th day D of the range: it
\* carries D and D - lag, its RTM value is the rolling average at D - lag and
\* its stock values are the rolling averages at D
RowIsAligned(i) ==
  LET row == chartData[i]
      D == IsoOfDay(DayOfIso(range.fromIso) + i - 1)
      Q == IsoOfDay(DayOfIso(D) - lagDays)
  IN /\ row.iso = D
     /\ row.rtmIso = Q
     /\ row.rtm = MeanOver(rtmMap, WindowKeys(rtmMap, Q, windowDays))
     /\ \A st \in DOMAIN row.stocks :
          row.stocks[st] = MeanOver(activeSheet.values[st],
                                    LatestDates(activeSheet.values[st], D, windowDays))

RowsAreAligned ==
  /\ lagDays \in 0..365
  /\ DOMAIN chartData = 1..DaysInclusive(range.fromIso, range.toIso)
  /\ \A i \in 1..DaysInclusive(range.fromIso, range.toIso) : RowIsAligned(i)

\* C8 (as stated): whenever the range is defined the aligned chart data has
\* exactly one row per calendar day of the range, ascending, each row with
\* its displayed date D and the queried date D - lag (lag in 0..365), the RTM
\* value taken at D - lag and every stock value at D.
C8_OneRowPerDay == range.fromIso # 0 => RowsAreAligned

\* C8 (amended): the same, for a card whose RTM series is not empty; with an
\* empty RTM series the chart data has no rows.
C8_OneRowPerDayWithRtm ==
  range.fromIso # 0 =>
    IF DOMAIN rtmMap # {} THEN RowsAreAligned ELSE chartData = <<>>

\* A lagged chart: the row of 5 March 2024 queries 2 March, where the RTM
\* window and the stock window differ from those of the row's own day
C8_Witness ==
  /\ range.fromIso # 0 /\ range.fromIso <= 20240305 /\ range.toIso >= 20240305
  /\ lagDays = 3 /\ windowDays = 7
  /\ 20240305 \in DOMAIN rtmMap /\ 20240228 \in DOMAIN rtmMap
  /\ rtmMap[20240305] # rtmMap[20240228]
  /\ mode = "price" /\ selectedStocks = <<"A", "B">>
  /\ LET row == chartData[DaysInclusive(range.fromIso, 20240305)]
     IN /\ row.iso = 20240305 /\ row.rtmIso = 20240302
        /\ row.rtm = R(rtmMap[20240228])
        /\ row.stocks["A"] = Rat(3, 2)

\* The data rows of a file: its non-blank lines, without the first one when
\* that is a header (its text before the first comma holds "date")
DataRows(text) ==
  LET lines == SelectSeq(text, LAMBDA l : \E i \in 1..Len(l) : l[i] # " ")
      isHeader(l) == \E i \in 1..(Len(l) - 3) :
                       /\ SubSeq(toLowerCase(l), i, i + 3) = <<"d", "a", "t", "e">>
                       /\ \A j \in 1..(i + 3) : l[j] # ","
  IN IF Len(lines) > 0 /\ isHeader(lines[1]) THEN Tail(lines) ELSE lines

\* C9: every data row of a file gives exactly one outcome, a parsed point or
\* an error entry, so the two lists together are as long as the data rows.
C9_OneOutcomePerRow ==
  (call.done /\ call.fn = "csvParse") =>
    Len(call.out.parsed) + Len(call.out.errors) = Len(DataRows(call.args.text))

\* C10: every line splitter reads the line that encodes a row of fields back
\* as those fields: a comma inside a quoted field starts no new field and a
\* doubled quote inside a quoted field is one quote.
C10_QuotedFields ==
  (call.done /\ call.fn \in SplitterFns) => call.out = call.args.fields

(***************************************************************************)
(* C11: the header row of a CSV file                                       *)
(***************************************************************************)
\* The trimmed fields of a line, split at its commas
FieldsOf(line) == LET cols == SplitOn(line, ",") IN [i \in 1..Len(cols) |-> Trim(cols[i])]

\* The first field holds "date" in any case
IsHeaderLine(line) == Includes(toLowerCase(FieldsOf(line)[1]), <<"d", "a", "t", "e">>)

\* The index (from 0) of the value column for a file with these lines
ValueColumn(lines, key) ==
  LET header == [i \in 1..Len(FieldsOf(lines[1])) |-> normalizeKey(FieldsOf(lines[1])[i])]
  IN IF IsHeaderLine(lines[1]) /\ \E i \in 1..Len(header) : header[i] = normalizeKey(key)
     THEN (CHOOSE i \in 1..Len(header) :
             header[i] = normalizeKey(key) /\ \A j \in 1..(i - 1) : header[j] # normalizeKey(key)) - 1
     ELSE 1

\* The points of the data lines: every line but a header line, read at the
\* value column (at column 1 when the row is shorter), kept when it has two
\* fields, a date and a number
RECURSIVE PointsOf(_, _, _, _)
PointsOf(fn, lenient, lines, col) ==
  IF lines = <<>> THEN <<>>
  ELSE LET f == FieldsOf(lines[1])
           date == IF fn = "csvParse" THEN parseInputDate(lenient, f[1])
                   ELSE parseInputDateRtm(lenient, StringCell(f[1]))
           v == StringToNumber(RemoveAll(IF col + 1 <= Len(f) THEN f[col + 1] ELSE f[2], ","))
           rest == PointsOf(fn, lenient, Tail(lines), col)
       IN IF Len(f) >= 2 /\ date # 0 /\ NumberIsFinite(v)
          THEN <<[date |-> date, value |-> v]>> \o rest ELSE rest

ExpectedPoints(fn, lenient, text, key) ==
  LET lines == nonEmptyLines(text)
  IN IF lines = <<>> THEN <<>>
     ELSE PointsOf(fn, lenient, IF IsHeaderLine(lines[1]) THEN Tail(lines) ELSE lines,
                   ValueColumn(lines, key))

\* The series the points give, the later point winning on a date
RECURSIVE SeriesOf(_)
SeriesOf(points) ==
  IF points = <<>> THEN EmptyMap
  ELSE Put(SeriesOf(SubSeq(points, 1, Len(points) - 1)),
           points[Len(points)].date, points[Len(points)].value)

\* C11: the first line of a file is dropped as a header exactly when its
\* first field holds "date" in any case; the value column is then the header
\* that equals the value column key once both are normalised, and column 1
\* when there is none or no header; a file without a header keeps its first
\* row.  csvParse and parseRtmCsv both return the points read that way.
C11_HeaderRow ==
  /\ (call.done /\ call.fn = "csvParse") =>
       call.out.parsed =
         ExpectedPoints("csvParse", call.args.lenient, call.args.text, call.args.valueColumnKey)
  /\ (call.done /\ call.fn = "parseRtmCsv") =>
       call.out =
         SeriesOf(ExpectedPoints("parseRtmCsv", call.args.lenient, call.args.text,
                                 call.args.valueColumnKey))

(***************************************************************************)
(* C12: merging rows into the series                                       *)
(***************************************************************************)
\* result is existing with the rows of incoming written over it in order
IsUpsertOf(result, existing, incoming) ==
  LET dates == {incoming[i].date : i \in 1..Len(incoming)}
      last(d) == CHOOSE i \in 1..Len(incoming) :
                   incoming[i].date = d /\ \A j \in (i + 1)..Len(incoming) : incoming[j].date # d
  IN /\ \A d \in dates : d \in DOMAIN result /\ result[d] = incoming[last(d)].value
     /\ \A d \in DOMAIN existing \ dates : d \in DOMAIN result /\ result[d] = existing[d]
     /\ DOMAIN existing \subseteq DOMAIN result

\* C12: after mergeRecords(existing, incoming) every date of incoming has the
\* value of its last row in incoming, every other date of existing keeps its
\* value, no date is removed and existing itself is as it was; importCSV
\* merges the parsed rows of the file into the series that way.
C12_MergeUpserts ==
  /\ (call.done /\ call.fn = "mergeRecords") =>
       /\ IsUpsertOf(call.out.next, call.args.existingMap, call.args.incoming)
       /\ call.out.existingMap = call.args.existingMap
  /\ (call.done /\ call.fn = "importCSV") =>
       IsUpsertOf(call.out, call.args.prev,
                  ExpectedPoints("csvParse", call.args.lenient, call.args.text,
                                 call.args.valueColumnKey))

\* A merge that overwrote a date of the series with the later of two rows
\* for it and kept another date of the series
C12_Witness ==
  /\ call.done /\ call.fn = "mergeRecords"
  /\ call.args.existingMap = (20240301 :> R(1) @@ 20240304 :> R(2))
  /\ call.args.incoming = <<[date |-> 20240301, value |-> R(2)], [date |-> 20240301, value |-> R(0)]>>
  /\ call.out.next = (20240301 :> R(0) @@ 20240304 :> R(2))

(***************************************************************************)
(* C13: the keys of the date parsers are dates of the calendar             *)
(***************************************************************************)
IsGregorian(k) ==
  KeyMonth(k) \in 1..12 /\ KeyDay(k) \in 1..DaysInMonth(KeyYear(k), KeyMonth(k))

DateParsers == {"parseInputDate", "parseISOKey"} \cup CellParsers

\* C13: a date parser returns null (0) or the key of a day of the Gregorian
\* calendar, so a text that names no such day, as 31/02/2024, 32/13/2024 or
\* 2024-02-31 do, is a failure; this holds for every parser.
C13_KeysAreDates ==
  (call.done /\ call.fn \in DateParsers) => (call.out = 0 \/ IsGregorian(call.out))

(***************************************************************************)
(* C14: the notations of parseInputDate                                    *)
(***************************************************************************)
\* The year a text of two or four digits stands for
YearRead(y) == IF Len(y) = 2 THEN 2000 + DigitsVal(y) ELSE DigitsVal(y)

\* The shapes of the notations: parts of digits between separators
IsDayMonthYear(ps) ==
  /\ Len(ps) = 3 /\ IsDigits(ps[1], 1, 2) /\ IsDigits(ps[2], 1, 2)
  /\ (IsDigits(ps[3], 2, 2) \/ IsDigits(ps[3], 4, 4))

IsMonthYear(ps) ==
  Len(ps) = 2 /\ IsDigits(ps[1], 1, 2) /\ (IsDigits(ps[2], 2, 2) \/ IsDigits(ps[2], 4, 4))

IsCanonical(ps) ==
  Len(ps) = 3 /\ IsDigits(ps[1], 4, 4) /\ IsDigits(ps[2], 2, 2) /\ IsDigits(ps[3], 2, 2)

\* The key a text stands for when read day before month: <<key>>, or <<>>
\* when the claim says nothing (the text names no day of the calendar, or its
\* year is before firstYear)
KeyRead(text, firstYear) ==
  LET t == Trim(text)
      sl == SplitOn(t, "/")
      da == SplitOn(t, "-")
      dmy(ps) == MkKey(YearRead(ps[3]), DigitsVal(ps[2]), DigitsVal(ps[1]))
      my(ps) == MkKey(YearRead(ps[2]), DigitsVal(ps[1]), 1)
      ymd(ps) == MkKey(DigitsVal(ps[1]), DigitsVal(ps[2]), DigitsVal(ps[3]))
      k == IF IsDayMonthYear(sl) THEN dmy(sl)
           ELSE IF IsMonthYear(sl) THEN my(sl)
           ELSE IF IsDayMonthYear(da) THEN dmy(da)
           ELSE IF IsCanonical(da) THEN ymd(da)
           ELSE 0
  IN IF k = 0 THEN <<0>>
     ELSE IF IsGregorian(k) /\ KeyYear(k) >= firstYear THEN <<k>>
     ELSE <<>>

ReadsAs(firstYear) ==
  (call.done /\ call.fn = "parseInputDate") =>
    LET k == KeyRead(call.args.s, firstYear) IN k = <<>> \/ call.out = k[1]

MinOf(a, b) == IF a <= b THEN a ELSE b

\* The same month and day in the year shifted by dy, the day clamped to the
\* last day of that month
ClampedShift(k, dy) ==
  MkKey(KeyYear(k) + dy, KeyMonth(k),
        MinOf(KeyDay(k), DaysInMonth(KeyYear(k) + dy, KeyMonth(k))))

YearShifts == {"isoAddYears", "sameDayPrevYear"}

ShiftOf(c) == IF c.fn = "isoAddYears" THEN c.args.deltaYears ELSE -1

\* C15: for every valid calendar key, the year-shifted key of a same-day
\* prior-year lookup (KPI, fiscal year, daily view) is a day of the Gregorian
\* calendar in the target year with the same month and the day clamped to
\* the last day of that month, so 29 February maps to 28 February.
C15_ShiftClamps ==
  (call # Null /\ call.done /\ call.fn \in YearShifts /\ IsGregorian(call.args.iso))
    => /\ IsGregorian(call.out)
       /\ call.out = ClampedShift(call.args.iso, ShiftOf(call))

\* The same for the KPI and fiscal-year shift alone
C15_IsoAddYearsClamps ==
  (call # Null /\ call.done /\ call.fn = "isoAddYears" /\ IsGregorian(call.args.iso))
    => /\ IsGregorian(call.out)
       /\ call.out = ClampedShift(call.args.iso, call.args.deltaYears)

C15_Witness ==
  /\ call # Null /\ call.done /\ call.fn = "isoAddYears"
  /\ call.args.iso = 20240229 /\ call.args.deltaYears = -1
  /\ call.out = 20230228


(***************************************************************************)
(* C16: the key of a Date read from a spreadsheet cell                     *)
(***************************************************************************)
\* The parsers of a workbook read with cellDates: true, whose cells hold Dates
DateCellParsers == {"parseInputDateRtm", "parseInputDateUTC"}

\* The calendar date of an instant on a clock offset minutes ahead of UTC
LocalDate(utcMinutes, offset) == IsoOfDay((utcMinutes + offset) \div 1440)

\* C16: a Date read from a spreadsheet cell is converted to the key of its
\* local year, month and day, so for every instant and timezone offset the
\* key is the local calendar date, never a day earlier or later; this holds
\* for every spreadsheet date parser.
C16_LocalDay ==
  (call # Null /\ call.done /\ call.fn \in DateCellParsers /\ call.args.s.kind = "date")
    => call.out = LocalDate(call.args.s.utcMinutes, call.args.s.offset)

\* The same for the parser of RTMVsStocksDailyCard.tsx alone
C16_LocalDayRtm ==
  (call # Null /\ call.done /\ call.fn = "parseInputDateRtm" /\ call.args.s.kind = "date")
    => call.out = LocalDate(call.args.s.utcMinutes, call.args.s.offset)

\* Midnight of 5 March 2024 in Kolkata, read in Kolkata
C16_Witness ==
  /\ call # Null /\ call.done /\ call.fn = "parseInputDateRtm"
  /\ call.args.s = DateCell(DayOfIso(20240305) * 1440 - 330, 330)
  /\ call.out = 20240305


(***************************************************************************)
(* C17: fiscal-year labels, their order and the previous fiscal year       *)
(***************************************************************************)
\* The calendar year a date's fiscal year ends in: its own for January to
\* March, the following one for April to December
FiscalEndYear(k) == IF KeyMonth(k) \in 1..3 THEN KeyYear(k) ELSE KeyYear(k) + 1

\* FYnn of a fiscal year, nn the last two digits of its ending year
LabelOfYear(endYear) == endYear % 100

\* The fiscal years of a series, earliest first
FiscalYearsOf(sd) == SortedSeq({FiscalEndYear(sd[i].date) : i \in 1..Len(sd)})

ChronologicalLabels(sd) ==
  [i \in 1..Len(FiscalYearsOf(sd)) |-> LabelOfYear(FiscalYearsOf(sd)[i])]

FYLabelIsRight ==
  (call # Null /\ call.done /\ call.fn = "fyLabelFromIso")
    => call.out = LabelOfYear(FiscalEndYear(call.args.iso))

FYRowsAreChronological ==
  (call # Null /\ call.done /\ call.fn = "fys")
    => call.out = ChronologicalLabels(call.args.sortedDaily)

FYPreviousIsRight ==
  (call # Null /\ call.done /\ call.fn = "prevFYOf")
    => call.out = LabelOfYear(FiscalEndYear(call.args.iso) - 1)

\* C17: the fiscal-year label of a date is FY and the last two digits of the
\* calendar year its fiscal year ends in (its own year for January to March,
\* the next for April to December); the fiscal-year rows are in
\* chronological order; the previous fiscal year of FYnn is the one ending
\* one calendar year earlier.
C17_FiscalYears == FYLabelIsRight /\ FYRowsAreChronological /\ FYPreviousIsRight

\* The series all of whose fiscal years end from 2001 to 2099
InThisCentury(sd) == \A i \in 1..Len(sd) : FiscalEndYear(sd[i].date) \in 2001..2099

\* The same with order and previous year for fiscal years FY01 to FY99 of
\* this century
C17_FiscalYearsOfThisCentury ==
  /\ FYLabelIsRight
  /\ (call # Null /\ call.done /\ call.fn = "fys" /\ InThisCentury(call.args.sortedDaily))
       => call.out = ChronologicalLabels(call.args.sortedDaily)
  /\ (call # Null /\ call.done /\ call.fn = "prevFYOf"
         /\ FiscalEndYear(call.args.iso) \in 2001..2099)
       => call.out = LabelOfYear(FiscalEndYear(call.args.iso) - 1)

\* 15 February 2024 and 15 May 2024 give the rows FY24, FY25
C17_Witness ==
  /\ call # Null /\ call.done /\ call.fn = "fys"
  /\ call.args.sortedDaily = <<[date |-> 20240215, value |-> 1], [date |-> 20240515, value |-> 1]>>
  /\ call.out = <<24, 25>>


(***************************************************************************)
(* C18: a control band needs two observations                              *)
(***************************************************************************)
\* The observations a band is computed from: the values of the series it is
\* drawn for that are present
Present(points, field) == {i \in 1..Len(points) : points[i][field] # Null}

LeftBands == {"controlStatsLeft", "controlStatsLeftCapacity"}

YoYBands == {"controlStatsYoY", "controlStatsYoYCapacity"}

Observations(c) ==
  IF c.fn \in LeftBands
  THEN (IF c.args.showUnitsSeries THEN Cardinality(Present(c.args.points, "units"))
        ELSE IF c.args.showPrevYearSeries
             THEN Cardinality(Present(c.args.points, "prev_year_units"))
        ELSE 0)
  ELSE IF c.fn \in YoYBands THEN Cardinality(Present(c.args.points, "yoy_pct"))
  ELSE Cardinality({i \in 1..Len(c.args.chartData) : NumberIsFinite(c.args.chartData[i].rtm)})

AllBands == LeftBands \cup YoYBands \cup {"rtmControl"}

\* C18: a control band (mean, standard deviation, mean +/- 1 sd, mean +/- 2
\* sd) is produced only from at least 2 observations; with 0 or 1 the result
\* is null.  This holds for the dashboard's value and YoY bands, the
\* capacity card's bands and the RTM card's band.
C18_BandNeedsTwo ==
  (call # Null /\ call.done /\ call.fn \in AllBands /\ Observations(call) < 2)
    => call.out = Null

\* The same for the bands of the dashboard and of the capacity card
C18_DashboardBandNeedsTwo ==
  (call # Null /\ call.done /\ call.fn \in LeftBands \cup YoYBands /\ Observations(call) < 2)
    => call.out = Null

\* One point on the dashboard's chart, the control lines switched on
C18_Witness ==
  /\ call # Null /\ call.done /\ call.fn = "controlStatsLeft"
  /\ call.args.showControlLines /\ call.args.showUnitsSeries
  /\ Len(call.args.points) = 1
  /\ call.out = Null


(***************************************************************************)
(* C19: the Pearson correlation                                            *)
(***************************************************************************)
XOf(pairs, i) == pairs[i][1][1]

YOf(pairs, i) == pairs[i][2][1]

ZeroVariance(pairs) ==
  \/ \A i, j \in 1..Len(pairs) : XOf(pairs, i) = XOf(pairs, j)
  \/ \A i, j \in 1..Len(pairs) : YOf(pairs, i) = YOf(pairs, j)

Degenerate(pairs) == Len(pairs) < 2 \/ ZeroVariance(pairs)

\* All pairs lie on one line
Collinear(pairs) ==
  \A i, j, k \in 1..Len(pairs) :
    (YOf(pairs, j) - YOf(pairs, i)) * (XOf(pairs, k) - XOf(pairs, i))
      = (YOf(pairs, k) - YOf(pairs, i)) * (XOf(pairs, j) - XOf(pairs, i))

Rising(pairs) ==
  \E i, j \in 1..Len(pairs) : XOf(pairs, i) < XOf(pairs, j) /\ YOf(pairs, i) < YOf(pairs, j)

InUnitRange(r) == r # Null /\ r[2] > 0 /\ -r[2] <= r[1] /\ r[1] <= r[2]

PearsonAsClaimed(pairs, out) ==
  /\ Degenerate(pairs) => out = Null
  /\ ~Degenerate(pairs) => InUnitRange(out)
  /\ (~Degenerate(pairs) /\ Collinear(pairs)) => out = (IF Rising(pairs) THEN R(1) ELSE R(-1))

\* C19: pearsonCorr(pairs) returns null when there are fewer than 2 pairs or
\* when the x values or the y values have zero variance; otherwise it returns
\* r with -1 <= r <= 1, and r = 1 when y is a positive linear function of x,
\* r = -1 for a negative one.
C19_Pearson ==
  (call # Null /\ call.done /\ call.fn = "pearsonCorr")
    => PearsonAsClaimed(call.args.pairs, call.out)

\* The first part alone: no correlation for a series that does not vary
C19_NullWithoutVariance ==
  (call # Null /\ call.done /\ call.fn = "pearsonCorr" /\ Degenerate(call.args.pairs))
    => call.out = Null

\* Sums over the pairs in exact arithmetic
RECURSIVE SumXY(_, _, _, _)
SumXY(pairs, i, a, b) ==
  IF i > Len(pairs) THEN 0
  ELSE (IF a = 1 THEN XOf(pairs, i) ELSE IF a = 2 THEN YOf(pairs, i) ELSE 1)
       * (IF b = 1 THEN XOf(pairs, i) ELSE IF b = 2 THEN YOf(pairs, i) ELSE 1)
       + SumXY(pairs, i + 1, a, b)

SpreadX(pairs) == Len(pairs) * SumXY(pairs, 1, 1, 1) - SumXY(pairs, 1, 1, 0) * SumXY(pairs, 1, 1, 0)

SpreadY(pairs) == Len(pairs) * SumXY(pairs, 1, 2, 2) - SumXY(pairs, 1, 2, 0) * SumXY(pairs, 1, 2, 0)

\* No sum, product or difference of the computation is rounded
SumsAreExact(pairs) ==
  /\ Len(pairs) * SumXY(pairs, 1, 1, 1) < Pow2(SignificandBits)
  /\ Len(pairs) * SumXY(pairs, 1, 2, 2) < Pow2(SignificandBits)
  /\ Len(pairs) * SumXY(pairs, 1, 1, 2) < Pow2(SignificandBits)
  /\ SumXY(pairs, 1, 1, 0) * SumXY(pairs, 1, 2, 0) < Pow2(SignificandBits)
  /\ SpreadX(pairs) * SpreadY(pairs) < Pow2(SignificandBits)

\* The same for the lists of pairs whose sums are computed without rounding
C19_PearsonOfExactSums ==
  (call # Null /\ call.done /\ call.fn = "pearsonCorr" /\ SumsAreExact(call.args.pairs))
    => PearsonAsClaimed(call.args.pairs, call.out)

\* The result is null or within [-1, 1] whatever is rounded
C19_PearsonInRange ==
  (call # Null /\ call.done /\ call.fn = "pearsonCorr")
    => (call.out = Null \/ InUnitRange(call.out))

\* (0, 0), (1, 2) give r = 1
C19_Witness ==
  /\ call # Null /\ call.done /\ call.fn = "pearsonCorr"
  /\ call.args.pairs = <<(<<R(0), R(0)>>), (<<R(1), R(2)>>)>>
  /\ call.out = R(1)


(***************************************************************************)
(* C20: no growth without data in the prior period                         *)
(***************************************************************************)
\* The dates of the prior month p a month m is compared with: in sum mode
\* those on days 1 .. maxDay(m), in average mode all of them
PriorMonthDates(m, p) ==
  IF calcMode = "sum"
  THEN {k \in MonthDates(dataMap, p) : k % 100 <= MaxDayOf(dataMap, m)}
  ELSE MonthDates(dataMap, p)

MonthGrowthNeedsData(point, m) ==
  /\ PriorMonthDates(m, PriorMonth(m)) = {} => point.mom_pct = Null
  /\ PriorMonthDates(m, PriorYearMonth(m)) = {} => point.yoy_pct = Null

MonthRowsNeedData(rows) ==
  \A i \in DOMAIN rows : MonthGrowthNeedsData(rows[i], rows[i].month)

MonthlyAggNeedsData == MonthRowsNeedData(monthlyAgg)

MonthPointsNeedData(points) ==
  \A i \in DOMAIN points : MonthGrowthNeedsData(points[i], points[i].label)

MonthlyViewNeedsData ==
  (DOMAIN dataMap # {} /\ aggFreq = "monthly") => MonthPointsNeedData(dailyForChart)

WeekRowsNeedData(rows) ==
  \A i \in DOMAIN rows :
    /\ WeekDates(dataMap, IsoOfDay(DayOfIso(rows[i].weekStart) - 7)) = {}
         => rows[i].wow_pct = Null
    /\ WeekDates(dataMap, IsoOfDay(DayOfIso(rows[i].weekStart) - 364)) = {}
         => rows[i].yoy_pct = Null

WeeklyNeedsData == WeekRowsNeedData(weeklyRows)

FiscalRowsNeedData(rows) ==
  \A i \in DOMAIN rows :
    FiscalDates(dataMap, 2000 + rows[i].fy - 1) = {} => rows[i].yoy_pct = Null

FiscalNeedsData == FiscalRowsNeedData(yearlyFYRows)

\* The date of a point labelled DD-MM-YYYY
DateOfLabel(label) == MkKey(label % 10000, (label \div 10000) % 100, label \div 1000000)

\* The same day of the month before
SameDayPriorMonth(k) == PriorMonth(k \div 100) * 100 + (k % 100)

DayPointsNeedData(points) ==
  \A i \in DOMAIN points :
    /\ DateOfLabel(points[i].label) - 10000 \notin DOMAIN dataMap => points[i].yoy_pct = Null
    /\ SameDayPriorMonth(DateOfLabel(points[i].label)) \notin DOMAIN dataMap
         => points[i].mom_pct = Null

DailyNeedsData ==
  (DOMAIN dataMap # {} /\ aggFreq = "daily") => DayPointsNeedData(dailyForChart)

\* The window of a rolling view that ends daysBack days before the anchor
PriorWindow(label, daysBack) ==
  WindowKeys(dataMap, IsoOfDay(DayOfIso(DateOfLabel(label)) - daysBack), rollingBack + 1)

RollingPointsNeedData(points) ==
  \A i \in DOMAIN points :
    /\ PriorWindow(points[i].label, 365) = {} => points[i].yoy_pct = Null
    /\ (aggFreq # "weekly_roll7_avg" \/ PriorWindow(points[i].label, 7) = {})
         => points[i].mom_pct = Null

RollingNeedsData ==
  (DOMAIN dataMap # {} /\ aggFreq \in RollingViews) => RollingPointsNeedData(dailyForChart)

\* C20: in every aggregate view (monthly sum, monthly average, weekly,
\* fiscal-year, daily, rolling) the growth percentage is null when the prior
\* period it compares with has no data point (in sum-mode monthly: no data on
\* days 1..maxDay of the prior month); it is never 0 and never computed
\* against a 0 that stands for missing data.
C20_GrowthNeedsPriorData ==
  /\ MonthlyAggNeedsData
  /\ MonthlyViewNeedsData
  /\ WeeklyNeedsData
  /\ FiscalNeedsData
  /\ DailyNeedsData
  /\ RollingNeedsData

\* The same for every view but the sum-mode 'monthly' chart view
C20_GrowthNeedsPriorDataElsewhere ==
  /\ MonthlyAggNeedsData
  /\ calcMode # "sum" => MonthlyViewNeedsData
  /\ WeeklyNeedsData
  /\ FiscalNeedsData
  /\ DailyNeedsData
  /\ RollingNeedsData

\* A rolling view with a current window that has data and none a year before
RollingPointsShowCase(points) ==
  \E i \in DOMAIN points :
    /\ PriorWindow(points[i].label, 0) # {}
    /\ PriorWindow(points[i].label, 365) = {}
    /\ points[i].yoy_pct = Null

C20_Witness ==
  DOMAIN dataMap # {} /\ aggFreq \in RollingViews /\ RollingPointsShowCase(dailyForChart)

(***************************************************************************)
(* C21: the dates of a parsed sheet                                        *)
(***************************************************************************)
\* The cell holds a finite number: a number, or a text that reads as one
HoldsNumber(c) ==
  \/ c.kind = "number"
  \/ c.kind = "string" /\ Trim(c.text) # <<>> /\ NumberIsFinite(StringToNumber(c.text))

\* The positions of the named columns of a sheet
NamedColumns(aoa) == {i \in 2..Len(aoa[1]) : headerText(aoa[1][i]) # <<>>}

\* The date of row r
RowDate(aoa, r) == parseInputDateRtm(TRUE, cellAt(aoa[r], 1))

\* The rows with a date and a number in one of the named columns
RowsWithData(aoa) ==
  {r \in 2..Len(aoa) :
     /\ RowDate(aoa, r) # 0
     /\ \E i \in NamedColumns(aoa) : HoldsNumber(cellAt(aoa[r], i))}

\* The numbers the rows of date d hold in the columns of name c
NumbersOf(aoa, c, d) ==
  UNION {{asFiniteNumberCell(cellAt(aoa[r], i)) :
            i \in {j \in NamedColumns(aoa) :
                     headerText(aoa[1][j]) = c /\ HoldsNumber(cellAt(aoa[r], j))}} :
         r \in {q \in 2..Len(aoa) : RowDate(aoa, q) = d}}

SheetIsRight(aoa, sheet) ==
  /\ {sheet.dates[i] : i \in 1..Len(sheet.dates)} = {RowDate(aoa, r) : r \in RowsWithData(aoa)}
  /\ \A i \in 1..(Len(sheet.dates) - 1) : sheet.dates[i] <= sheet.dates[i + 1]
  /\ sheet.latestDate = (IF Len(sheet.dates) = 0 THEN 0
                         ELSE SetMax({sheet.dates[i] : i \in 1..Len(sheet.dates)}))
  /\ \A c \in DOMAIN sheet.values : \A d \in DOMAIN sheet.values[c] :
        sheet.values[c][d] \in NumbersOf(aoa, c, d)

\* C21: the date list of a parsed sheet holds the dates of the rows that have
\* a date and a finite number among their value cells, in ascending order;
\* latestDate is the greatest of them, null for an empty list; every value of
\* a column comes from a row of that date.
C21_SheetDates ==
  (call.fn = "parseSheet" /\ call.done) => SheetIsRight(call.args.aoa, call.out)

\* The sheet's columns all have a name and no cell holds a blank text
FilledSheet(aoa) ==
  /\ NamedColumns(aoa) = 2..Len(aoa[1])
  /\ \A r \in 2..Len(aoa) : \A i \in 1..Len(aoa[r]) :
        aoa[r][i].kind = "string" => Trim(aoa[r][i].text) # <<>>

\* The same for the sheets whose columns all have a name and whose cells hold
\* no blank text
C21_SheetDatesOfFilledSheets ==
  (call.fn = "parseSheet" /\ call.done /\ FilledSheet(call.args.aoa))
    => SheetIsRight(call.args.aoa, call.out)

\* A load of the installed values applies its result in this step
InstalledResultApplied ==
  \E i \in DOMAIN installedLoads :
    /\ ~installedLoads[i].settled
    /\ installedLoads'[i].settled
    /\ ~installedLoads[i].cancelled
    /\ ~capacityCsvMissing'
    /\ installedLoads'[i] = [installedLoads[i] EXCEPT !.settled = TRUE]

\* C22: when the result of the capacity file is applied, every installed
\* value that is not zero (one the user entered, since a load starts only
\* when all values are zero) is kept; and a mount with a non-zero stored
\* value starts no load.
C22_UserValuesKept ==
  [][/\ InstalledResultApplied =>
          \A s \in SourceSet : ~RIsZero(installed[s]) => installed'[s] = installed[s]
     /\ (~ratedMounted /\ ratedMounted' /\ hasNonZeroLocal(installed')) =>
          installedLoads' = installedLoads]_vars

\* The month keys of a list
MonthsOf(options) == {options[i] : i \in 1..Len(options)}

\* The month that C30 names for a target and a list that is not empty: the
\* target if it is in the list, else the latest month of the list that is not
\* after the target, else the earliest month of the list
ClampedMonth(target, options) ==
  LET notAfter == {o \in MonthsOf(options) : o <= target}
  IN IF target \in MonthsOf(options) THEN target
     ELSE IF notAfter # {} THEN SetMax(notAfter)
     ELSE SetMin(MonthsOf(options))

\* C30: with month options, the start and the end month are options and the
\* start month is not later than the end month; and clampMonthKeyToOptions
\* gives, for every month of the inputs and the options of the state, the
\* target if it is an option, else the latest option not after it, else the
\* earliest option.
C30_MonthsAreOptions ==
  LET options == monthOptions(history)
  IN Len(options) > 0 =>
       /\ startMonth \in MonthsOf(options)
       /\ endMonth \in MonthsOf(options)
       /\ (startMonth \div 100) * 12 + (startMonth % 100)
            <= (endMonth \div 100) * 12 + (endMonth % 100)
       /\ \A v \in MonthInputValues \ {<<>>} :
            clampMonthKeyToOptions(inputValueToMonthKey(v), options)
              = ClampedMonth(inputValueToMonthKey(v), options)

\* The user has moved the end month from the latest option to the earliest
C30_Witness ==
  /\ ratedMounted
  /\ monthOptions(history) = <<202401, 202403>>
  /\ startMonth = 202401
  /\ endMonth = 202401

\* C23: with an anchor date, the range runs from a day that is not after its
\* last day, and its last day is not after the anchor date.
C23_RangeOrdered ==
  anchorDate # 0 => (range.fromIso <= range.toIso /\ range.toIso <= anchorDate)

\* The To input holds a day that is not earlier than 24 months before the
\* anchor date
ToWithinTwoYears ==
  ~(cardToIso # 0 /\ isFourDigitYear(cardToIso) /\ cardToIso < isoMinusMonths(anchorDate, 24))

\* C23, for the To inputs that are not earlier than 24 months before the
\* anchor date: the range is ordered and ends by the anchor date.
C23_RangeOrderedWithinTwoYears ==
  (anchorDate # 0 /\ ToWithinTwoYears) =>
    (range.fromIso <= range.toIso /\ range.toIso <= anchorDate)

\* Call i of loadNews is made in this step
NewsCallMade(i) == i = Len(newsCalls) + 1 /\ Len(newsCalls') = i

\* Call i of loadNews ends in this step
NewsCallEnds(i) ==
  /\ i \in DOMAIN newsCalls'
  /\ newsCalls'[i].stage \in {"cached", "done", "failed"}
  /\ i \in DOMAIN newsCalls => newsCalls[i].stage \in {"newsapi", "rss"}

\* The texts of the items of the responses that mention India and power
RelevantHays ==
  {h \in {HayIndiaCoal, HayCoal, HayIndianGrid, HayIndiaCricket} : isRelevant([hay |-> h])}

\* The list is at most 100 relevant items, newest first
NewsListIsRight(list) ==
  /\ Len(list) <= 100
  /\ \A k \in 1..Len(list) : list[k].hay \in RelevantHays
  /\ \A k \in 1..(Len(list) - 1) : list[k].publishedAtISO >= list[k + 1].publishedAtISO

\* C24: a call without force that finds a cache younger than one hour sets
\* the items to the cached ones, awaits no fetch and leaves the cache; every
\* other call awaits NewsAPI, and the RSS feed only after NewsAPI; a call
\* that ends with items stores at most 100 relevant items, newest first, in
\* the cache with the time of the clock and in the items; a call whose two
\* fetches fail leaves the items and the cache and sets the error; and
\* loading is false when a call ends.  (The states are those of the
\* component that made the call, while it is mounted.)
C24_LoadNews ==
  [][\A i \in 1..MaxNewsCalls :
       /\ NewsCallMade(i) =>
            IF ~newsCalls'[i].force /\ newsCache # Null /\ now - newsCache.ts < 3600000
            THEN /\ newsCalls'[i].stage = "cached"
                 /\ items' = newsCache.items
                 /\ newsCache' = newsCache
            ELSE newsCalls'[i].stage = "newsapi"
       /\ (i \in DOMAIN newsCalls /\ newsCalls'[i].stage = "rss") =>
            newsCalls[i].stage \in {"newsapi", "rss"}
       /\ (NewsCallEnds(i) /\ newsCalls'[i].stage = "done") =>
            /\ NewsListIsRight(newsCache'.items)
            /\ newsCache'.ts = now
            /\ newsCalls[i].live => items' = newsCache'.items
       /\ (NewsCallEnds(i) /\ newsCalls'[i].stage = "failed") =>
            /\ items' = items
            /\ newsCache' = newsCache
            /\ newsCalls[i].live => err' = NewsError
       /\ (NewsCallEnds(i) /\ newsCalls'[i].live) => ~newsLoading']_vars

\* A call without force has returned a cache of one hour less a millisecond
\* while the tab shows 100 items, and an earlier call has failed
C24_Witness ==
  /\ newsMounted
  /\ Len(items) = 100
  /\ newsCache # Null /\ now - newsCache.ts = 3600000 - 1
  /\ \E i \in DOMAIN newsCalls : newsCalls[i].stage = "cached"
  /\ \E i \in DOMAIN newsCalls : newsCalls[i].stage = "failed"

\* Instance i of the default-CSV effect settles in this step
LoadSettlesIn(i) == i \in DOMAIN loads /\ ~loads[i].settled /\ loads'[i].settled

\* C25: the response of an instance that was cleaned up changes neither the
\* series nor the errors nor the fetch status, and a response that changes
\* one of them is that of the latest instance.
C25_StaleResponseIgnored ==
  [][\A i \in 1..MaxLoads :
       LoadSettlesIn(i) =>
         /\ loads[i].cancelled =>
              (dataMap' = dataMap /\ errors' = errors /\ fetchStatus' = fetchStatus)
         /\ (dataMap' # dataMap \/ errors' # errors \/ fetchStatus' # fetchStatus) =>
              (i = Len(loads) /\ mounted)]_vars

\* The first instance was cleaned up and has settled, and the second has
\* loaded the default CSV
C25_Witness ==
  /\ Len(loads) = 2
  /\ loads[1].cancelled /\ loads[1].settled
  /\ ~loads[2].cancelled /\ loads[2].settled
  /\ fetchStatus # Null

\* C26: the default load keeps every entry of the series on a date that only
\* the user's inputs give (an entry the user upserted or imported, before
\* the mount or while the fetch was pending).
C26_UserValuesSurvive ==
  [][\A i \in 1..MaxLoads :
       (LoadSettlesIn(i) /\ ~loads[i].cancelled) =>
         \A k \in UserDates \cap DOMAIN dataMap :
           k \in DOMAIN dataMap' /\ dataMap'[k] = dataMap[k]]_vars

\* C27: in a mounted dashboard the stored object has the entries of the
\* series, and the initialiser reads the series back from it.
C27_StorageMirrorsSeries ==
  mounted => /\ DOMAIN storage = {KeyText(k) : k \in DOMAIN dataMap}
             /\ \A k \in DOMAIN dataMap : storage[KeyText(k)] = dataMap[k]
             /\ restoredMap(engine, storage) = dataMap

\* The dashboard was opened again and shows, from browser storage, an entry
\* of the default CSV, an entry of the user and the sample
C27_Witness ==
  /\ mounted
  /\ Len(loads) = 2
  /\ {20240230, 20240304, 20251218} \subseteq DOMAIN dataMap

\* C28: no data point has the value 0 (no text of the files and of the
\* Value input reads as 0, but the blank ones do).
C28_NoZeroFromBlank == \A k \in DOMAIN dataMap : dataMap[k] # 0

\* k is the key of a day of the calendar
IsCalendarDay(k) ==
  KeyMonth(k) \in 1..12 /\ KeyDay(k) >= 1 /\ KeyDay(k) <= DaysInMonth(KeyYear(k), KeyMonth(k))

\* The calendar days from f to t
CalendarDays(f, t) ==
  LET monthDays == {ymd \in (KeyYear(f)..KeyYear(t)) \X (1..12) \X (1..31) :
                      ymd[3] <= DaysInMonth(ymd[1], ymd[2])}
      keys == {ymd[1] * 10000 + ymd[2] * 100 + ymd[3] : ymd \in monthDays}
  IN {k \in keys : f <= k /\ k <= t}

\* anchors are the values of cur in the passes of
\* let cur = f; while (cur <= t) { ...; cur = isoPlusDays(cur, 1); }
\* and the loop ends after the last of them
IsLoopTrace(anchors, f, t) ==
  /\ (Len(anchors) = 0) = (f > t)
  /\ \A i \in 1..Len(anchors) :
       /\ anchors[i] = IF i = 1 THEN f ELSE isoPlusDays(anchors[i - 1], 1)
       /\ anchors[i] <= t
  /\ Len(anchors) > 0 => isoPlusDays(anchors[Len(anchors)], 1) > t

\* The points of a rolling view are those of the anchors, which are the
\* calendar days from f to t (there are count of them), first to last
PointsOfDays(points, anchors, count, f, t) ==
  /\ IsLoopTrace(anchors, f, t)
  /\ Len(points) = DayOfIso(t) - DayOfIso(f) + 1
  /\ Len(points) = count
  /\ Len(points) = Len(anchors)
  /\ \A i \in 1..Len(anchors) :
       /\ IsCalendarDay(anchors[i])
       /\ i > 1 => anchors[i - 1] < anchors[i]
       /\ points[i].label = formatDDMMYYYY(anchors[i])

\* The points of the daily view are those of the dates of the series
PointsOfDates(points, dates) ==
  /\ Len(points) = Len(dates)
  /\ \A i \in 1..Len(dates) :
       /\ points[i].label = formatDDMMYYYY(dates[i])
       /\ points[i].units = R(dataMap[dates[i]])

=============================================================================
